---------------------------- MODULE Spec2Model ----------------------------
(***************************************************************************)
(* A model of the rapid-rusty lap timing engine: the event bus             *)
(* (module_core), the track detector, the lap timer, the active session    *)
(* builder and the file system storage.                                    *)
(*                                                                         *)
(* The module holds several specifications over one set of variables.      *)
(* Each specification drives one part of the program and leaves the        *)
(* variables of the other parts at their initial values:                   *)
(*   SpecBus     the broadcast channel behind EventBus (ring buffer, lag)  *)
(*   SpecWait    ModuleCtx::wait_for_event on the context's receiver       *)
(*   SpecDetect  the track detector answering requests, with the storage   *)
(*   SpecReq     the storage and the detector answering requests of every  *)
(*               kind                                                      *)
(*   SpecLap     the pipeline of rapid_headless: GNSS fixes, the detector, *)
(*               the lap timer, the session builder and the storage        *)
(*   SpecPair    two waits, one after the other, on one receiver           *)
(*   SpecStore   the storage alone, on session folders of several kinds,   *)
(*               its file operations failing at any step                   *)
(*   SpecSession the session builder alone, events reaching it in any      *)
(*               order                                                     *)
(*   SpecCross   the crossing test of the lap timer on windows of four     *)
(*               fixes                                                     *)
(*   SpecIds     EventBus::new and the ids of buses and contexts           *)
(*   SpecDrop    subscriptions dropped while others lag on the channel     *)
(*   SpecTimer   the lap timer and the session builder, track responses    *)
(*               of any id and address reaching them at any moment         *)
(*   SpecQuit    every module on the bus and a Quit event                  *)
(*   SpecDeadline wait_for_event with the time and its timeout             *)
(*   SpecSource  the time source of the tests, durations sent to it        *)
(*   SpecPass    the lap timer on one pass of a marker                     *)
(*   SpecCrash   the storage saving and deleting, its process ending       *)
(*   SpecSave    a save in two parts, the session builder going on         *)
(*               between any two file operations                           *)
(***************************************************************************)
EXTENDS Integers, Sequences, FiniteSets, TLC

VARIABLES
    \* ---- the broadcast channel behind EventBus (SpecBus)
    pubCount,   \* number of publish calls made so far (names the events)
    tail,       \* tail.pos of the channel: position of the next slot written
    buffer,     \* the ring of slots, each [pos, ev]
    subs,       \* per subscription: [active, next, subAt, lagged]
    lastRecv,   \* per subscription: the outcome of its last receive
    \* ---- the bus ids (SpecIds)
    BUS_ID,     \* the static counter the bus ids are taken from
    newCalls,   \* per thread: the call of EventBus::new it is in, [pc, id, ticket]
    buses       \* the buses constructed so far, each [id, ticket, ctxs]: its id,
                \* the rank of its fetch_add among all, the ids of its contexts

VARIABLES
    \* ---- ModuleCtx::wait_for_event (SpecWait)
    ctxQueue,    \* what the context's receiver will yield next, in order
    ctxSent,     \* number of items sent to the context's receiver so far
    waitPc,      \* "idle", "waiting" or "done"
    waitArgs,    \* [id, addr, kind] of the call in progress
    waitResult,  \* the value the call returned
    waitSkipped, \* an event that agreed on id, addr and kind was passed over
    waitLog,     \* [delivered, returned]: the items sent to the receiver and
                 \* the calls that returned, each with its arguments, its
                 \* result and the number of items taken from the receiver
                 \* by then (SpecPair)
    waitClock    \* [now, called, deadline, done], in seconds: the time, the
                 \* time of the last call, the deadline of its timeout and
                 \* the time at which it was done (SpecDeadline)

VARIABLES
    \* ---- ElapsedTestTimeSource (SpecSource)
    timeSource,  \* [receiver, duration]: the durations sent and not yet
                 \* received, the duration held
    timeLog      \* [injected, read, starts]: the durations sent so far; <<>>
                 \* or the last call of elapsed_time, [value, at]: what it
                 \* returned, how many durations had been sent by then; the
                 \* number of calls of start

VARIABLES
    \* ---- FilesSystemStorage::save under way (SpecSave)
    saving       \* <<>>, or <<[req, id, json_session, json_session_info]>>:
                 \* the request handled and what save serialized, its files
                 \* not yet written

VARIABLES
    \* ---- the modules on the bus (SpecDetect)
    modules,       \* the modules that hold a context of the bus
    inbox,         \* per module: the events its receiver has not yet yielded
    busLog,        \* the requests and responses published so far, in order
    returned,      \* per module: "no", or "Ok" once its run() returned Ok(())
    envLeft,       \* [requests, detects, fixes, feeds, quits]: what the
                   \* clients of the storage, those of the detector, the GNSS
                   \* source and the feeder of a module may still send, and
                   \* the Quit events that may still be published
    \* ---- FilesSystemStorage
    sessionFiles,  \* <root>/session/<id>.session: id -> content
    infoFiles,     \* <root>/session/<id>.info: id -> content
    trackFiles,    \* <root>/track/<id>.track: id -> content
    sessionDir,    \* the folder <root>/session exists
    unsynced,      \* the files <<extension, id>> whose bytes were written, the
                   \* last sync_all of which did not succeed
    \* ---- TrackDetection
    detStarted,    \* run() has published its catalog request
    detPosition,   \* position: Option<Position>, <<>> or <<p>>
    detPending,    \* pending_requests
    detTracks,     \* tracks
    detHist        \* what is remembered of the detector's past (see NoHist)

VARIABLES
    \* ---- SimpleLaptimer, ActiveSession and the GNSS source (SpecLap)
    laptimer,       \* the fields of SimpleLaptimer, running: run() has begun
    activeSession,  \* the fields of ActiveSession, running: run() has begun
    gnss,           \* [route, next]: the route driven, the index of the next fix
    lapHist         \* what is remembered of the lap timer's past (see NoLapHist)

modVars == <<modules, inbox, busLog, envLeft>>
storeVars == <<sessionFiles, infoFiles, trackFiles, sessionDir, unsynced>>
detVars == <<detStarted, detPosition, detPending, detTracks, detHist>>
lapVars == <<laptimer, activeSession, gnss, lapHist>>
busVars == <<pubCount, tail, buffer, subs, lastRecv>>
idVars == <<BUS_ID, newCalls, buses>>
srcVars == <<timeSource, timeLog>>
saveVars == <<saving>>
waitVars == <<ctxQueue, ctxSent, waitPc, waitArgs, waitResult, waitSkipped, waitLog,
              waitClock>>

vars == <<busVars, idVars, waitVars, srcVars, saveVars, modVars, returned, storeVars, detVars,
          lapVars>>

\* what the actions of the channel, those of wait_for_event and the handlers
\* of the modules leave as it is
notBus == <<idVars, waitVars, srcVars, saveVars, modVars, returned, storeVars, detVars, lapVars>>
notWait == <<busVars, idVars, srcVars, saveVars, modVars, returned, storeVars, detVars, lapVars>>
notMods == <<busVars, idVars, waitVars, srcVars, saveVars, returned>>

----------------------------------------------------------------------------
(***************************************************************************)
(* Bounds of the model.                                                    *)
(***************************************************************************)
MaxPublish == 150       \* publish calls explored on the channel
MaxSubscribeAt == 2     \* a subscription is created within the first publishes
MaxCtxSent == 4         \* items sent to a context's receiver
MaxRequests == 1        \* SpecReq: requests published by clients of the storage
MaxDetects == 2         \* SpecDetect: DetectTrackRequests published by clients
MaxFixes == 2           \* SpecDetect: position events published by the GNSS source
MaxBacklog == 0         \* SpecLap: events a module has not yet taken when a fix is sent
MaxDrift == 1           \* SpecLap: ticks the clock advances between two reads
MaxFeeds == 5           \* SpecSession: events sent to the session builder
MaxStoreRequests == 2   \* SpecStore: requests sent to the storage

----------------------------------------------------------------------------
(***************************************************************************)
(* EventBus: tokio::sync::broadcast::channel(100).                         *)
(* An event is named by the number of the publish call that sent it.       *)
(***************************************************************************)
Capacity == 100

RECURSIVE NextPowerOfTwoFrom(_, _)
NextPowerOfTwoFrom(p, n) == IF p >= n THEN p ELSE NextPowerOfTwoFrom(2 * p, n)

\* the channel rounds the requested capacity up to a power of two
BufferLen == NextPowerOfTwoFrom(1, Capacity)

Subs == {"s1"}

NoEvent == 0

\* subs: next is the receiver's cursor; subAt (the number of publish calls made
\* before the subscription), got (events received) and lagged (a lag signal was
\* received) record its history
NoSub == [active |-> FALSE, next |-> 0, subAt |-> 0, got |-> 0, lagged |-> FALSE]

\* lastRecv: kind and val are what recv returned (n the count of Lagged(n));
\* the other fields record what the channel held when it returned: backlog the
\* number of events sent and not yet received, oldest and newest whether val
\* was the oldest / the newest event the channel retained, prev the kind of
\* the receive before
NoRecv == [kind |-> "None", val |-> NoEvent, n |-> 0, backlog |-> 0,
           oldest |-> FALSE, newest |-> FALSE, prev |-> "None"]

----------------------------------------------------------------------------
(***************************************************************************)
(* Events.  Every event is a record [kind, id, addr, data]; id and addr    *)
(* are None for the kinds that carry no Request or Response, and data is   *)
(* a sequence.                                                             *)
(***************************************************************************)
None == -1

RequestKinds ==
    {"LoadStoredSessionIdsRequestEvent", "SaveSessionRequestEvent",
     "LoadSessionRequestEvent", "DeleteSessionRequestEvent",
     "LoadStoredTrackIdsRequest", "LoadAllStoredTracksRequestEvent",
     "DetectTrackRequestEvent"}

ResponseKinds ==
    {"LoadStoredSessionIdsResponseEvent", "SaveSessionResponseEvent",
     "LoadSessionResponseEvent", "DeleteSessionResponseEvent",
     "LoadStoredTrackIdsResponseEvent", "LoadAllStoredTracksResponseEvent",
     "DetectTrackResponseEvent"}

Ev(kind, id, addr, data) == [kind |-> kind, id |-> id, addr |-> addr, data |-> data]

Plain(kind, data) == Ev(kind, None, None, data)

\* Event::id
EventId(e) == IF e.kind \in RequestKinds \cup ResponseKinds THEN e.id ELSE None

\* Event::addr
EventAddr(e) == IF e.kind \in RequestKinds \cup ResponseKinds THEN e.addr ELSE None

\* ElapsedTestTimeSource::default: an empty channel, the duration zero
SourceIdle ==
    /\ timeSource = [receiver |-> <<>>, duration |-> 0]
    /\ timeLog = [injected |-> <<>>, read |-> <<>>, starts |-> 0]

\* no save is under way
SaveIdle == saving = <<>>

\* the state of the wait_for_event part when it is not driven
WaitIdle ==
    /\ ctxQueue = <<>>
    /\ ctxSent = 0
    /\ waitPc = "idle"
    /\ waitArgs = [id |-> None, addr |-> None, kind |-> "None"]
    /\ waitResult = [kind |-> "None", event |-> Plain("None", <<>>)]
    /\ waitSkipped = FALSE
    /\ waitLog = [delivered |-> <<>>, returned |-> <<>>]
    /\ waitClock = [now |-> 0, called |-> 0, deadline |-> 0, done |-> 0]

----------------------------------------------------------------------------
(***************************************************************************)
(* Positions and tracks.  A Position is [latitude, longitude] in units of  *)
(* 1/111300 degree, close to the equator: there the factor                 *)
(* cos(mid latitude) of calculate_distance is 1 to within 1e-7, so one     *)
(* unit is one metre in both directions.  Distances are compared by their  *)
(* squares.                                                                *)
(***************************************************************************)
Pos(lat, lon) == [latitude |-> lat, longitude |-> lon]

\* algorithm::calculate_distance, squared
CalculateDistanceSq(pos1, pos2) ==
    LET dx == pos1.longitude - pos2.longitude
        dy == pos1.latitude - pos2.latitude
    IN  dx * dx + dy * dy

\* the radius TrackDetection passes to is_on_track
DetectionRadius == 500

\* algorithm::is_on_track: the loop over the tracks, from index i on
RECURSIVE IsOnTrackFrom(_, _, _, _)
IsOnTrackFrom(tracks, pos, radius, i) ==
    IF i > Len(tracks) THEN <<>>
    ELSE IF CalculateDistanceSq(tracks[i].startline, pos) <= radius * radius
         THEN <<tracks[i]>> \o IsOnTrackFrom(tracks, pos, radius, i + 1)
         ELSE IsOnTrackFrom(tracks, pos, radius, i + 1)

\* is_on_track with the radius excluded
IsOnTrackStrict(tracks, pos, radius) ==
    SelectSeq(tracks, LAMBDA t : CalculateDistanceSq(t.startline, pos) < radius * radius)

\* algorithm::is_on_track
IsOnTrack(tracks, pos, radius) == IsOnTrackFrom(tracks, pos, radius, 1)

\* common::track::Track
Track(name, startline, finishline, sectors) ==
    [name |-> name, startline |-> startline, finishline |-> finishline,
     sectors |-> sectors]

TrackWest == Track("Oschersleben", Pos(0, 0), <<>>, <<Pos(0, 100)>>)
TrackEast == Track("Assen", Pos(0, 800), <<Pos(0, 1000)>>, <<Pos(0, 900), Pos(0, 950)>>)

\* the fixes the GNSS source of SpecDetect reports: at the start line of
\* TrackWest, 500 m east of it (300 m from TrackEast), and out of range of both
DetectFixes == {Pos(0, 0), Pos(0, 500), Pos(0, 1400)}

\* a track without sector markers
TrackFlat == Track("Flat", Pos(0, 3000), <<>>, <<>>)

\* the routes the GNSS source of SpecLap drives, as longitudes on the equator.
\* A marker is crossed by four fixes 20 and 10 m before and 5 and 15 m behind
\* it; every route starts out of the 25 m range of the start line.
\* RouteWest: two laps of TrackWest, whose start line is its finish line
RouteWest ==
    <<-40, -20, -10, 5, 15, 80, 90, 105, 115, 20, 10, -5, -15,
      80, 90, 105, 115, 20, 10, -5, -15>>

\* RouteEast: one lap of TrackEast and over its first sector marker again
RouteEast ==
    <<760, 780, 790, 805, 815, 880, 890, 905, 915, 930, 940, 955, 965,
      980, 990, 1005, 1015, 920, 910, 895, 885>>

\* RouteFlat: over the start line of TrackFlat
RouteFlat == <<2960, 2980, 2990, 3005, 3015, 3030>>

Routes == {RouteWest, RouteEast, RouteFlat}

\* a file that does not parse
Garbage == [garbage |-> TRUE]

\* the track folders SpecDetect starts from
TrackFolders ==
    { <<>>,
      <<TrackWest, TrackEast>>,
      <<Garbage, TrackEast>> }

----------------------------------------------------------------------------
(***************************************************************************)
(* Sessions.  date and time are one number, stamp; a session id is the     *)
(* pair of the lowercased track name and the stamp.                        *)
(***************************************************************************)
ToLowercase(name) ==
    CASE name = "Oschersleben" -> "oschersleben"
      [] name = "Assen" -> "assen"
      [] name = "Flat" -> "flat"
      [] OTHER -> name

\* the order of the ids as strings
NameRank(name) ==
    CASE name = "assen" -> 1
      [] name = "flat" -> 2
      [] name = "oschersleben" -> 3
      [] OTHER -> 4

\* a Session; stamp stands for its date and time, durations are counted in
\* microseconds
Session(stamp, track, laps) ==
    [id |-> 0, stamp |-> stamp, track |-> track, laps |-> laps]

WithId(session, id) == [session EXCEPT !.id = id]

\* FilesSystemStorage::get_id
GetId(session) == <<ToLowercase(session.track.name), session.stamp>>

\* SessionInfo::new as save calls it
SessionInfoOf(session) ==
    [id |-> GetId(session), stamp |-> session.stamp,
     track_name |-> session.track.name, laps |-> Len(session.laps)]

\* serde::duration::duration_to_string: "%H:%M:%S%.3f" shows the duration
\* down to the millisecond; the string is modelled by the milliseconds shown
DurationToString(duration) == duration \div 1000

\* Session::to_json: the fields of the session, the sector times as strings
ToJson(session) ==
    [id |-> session.id, stamp |-> session.stamp, track |-> session.track,
     laps |-> [i \in DOMAIN session.laps |->
                 [sectors |-> [j \in DOMAIN session.laps[i].sectors |->
                                  DurationToString(session.laps[i].sectors[j])],
                  log_points |-> session.laps[i].log_points]]]

\* Lap::extrac_sectors: the strings parsed as times of day, of which the
\* seconds since midnight are kept
ExtracSectors(strings) ==
    [j \in DOMAIN strings |-> (strings[j] \div 1000) * 1000000]

\* Lap::from_json
LapFromJson(json) ==
    [sectors |-> ExtracSectors(json.sectors), log_points |-> json.log_points]

\* Session::from_json: the id of the parsed session is 0
FromJson(json) ==
    [id |-> 0, stamp |-> json.stamp, track |-> json.track,
     laps |-> [i \in DOMAIN json.laps |-> LapFromJson(json.laps[i])]]

IdLess(a, b) ==
    \/ NameRank(a[1]) < NameRank(b[1])
    \/ NameRank(a[1]) = NameRank(b[1]) /\ a[2] < b[2]

\* the elements of a set of ids, ascending
RECURSIVE SortIds(_)
SortIds(ids) ==
    IF ids = {} THEN <<>>
    ELSE LET m == CHOOSE x \in ids : \A y \in ids \ {x} : IdLess(x, y)
         IN  <<m>> \o SortIds(ids \ {m})

\* the session SpecDetect finds stored, the sessions its clients ask to save
\* and the ids they ask for
StoredSession ==
    Session(1, TrackEast, <<[sectors |-> <<25000000, 26000000, 27000000>>,
                             log_points |-> <<>>]>>)

ClientSessions == {Session(1, TrackWest, <<>>), StoredSession}

ClientIds == {GetId(x) : x \in ClientSessions}

----------------------------------------------------------------------------
(***************************************************************************)
(* The modules on the bus.  Every module owns a receiver; inbox[m] holds   *)
(* the events it has not yet taken.  Events that a module's run loop       *)
(* matches with `_ => ()` are left out of its inbox.                       *)
(***************************************************************************)
Handled(m) ==
    CASE m = "storage" ->
            {"QuitEvent",
             "LoadStoredSessionIdsRequestEvent", "SaveSessionRequestEvent",
             "LoadSessionRequestEvent", "DeleteSessionRequestEvent",
             "LoadStoredTrackIdsRequest", "LoadAllStoredTracksRequestEvent"}
      [] m = "detector" ->
            {"QuitEvent", "GnssPositionEvent", "LoadAllStoredTracksResponseEvent",
             "DetectTrackRequestEvent"}
      [] m = "laptimer" -> {"QuitEvent", "GnssPositionEvent", "DetectTrackResponseEvent"}
      [] m = "session" ->
            {"QuitEvent", "DetectTrackResponseEvent", "LapStartedEvent",
             "SectorFinshedEvent", "LapFinishedEvent", "GnssPositionEvent"}
      [] m = "gnss" -> {"QuitEvent"}
      [] OTHER -> {}

Correlated(e) == e.kind \in RequestKinds \cup ResponseKinds

\* the events evs are published, in order, after module m took the head of
\* its inbox (m = "env": by a client, which takes nothing)
PublishSeq(m, evs) ==
    /\ inbox' = [x \in DOMAIN inbox |->
                    LET rest == IF x = m THEN Tail(inbox[x]) ELSE inbox[x]
                    IN  IF x \in modules
                        THEN rest \o SelectSeq(evs, LAMBDA e : e.kind \in Handled(x))
                        ELSE rest]
    /\ busLog' = busLog \o SelectSeq(evs, Correlated)

ModuleNames == {"storage", "detector", "laptimer", "session", "gnss"}

\* no run() has returned
NotReturned == [m \in ModuleNames |-> "no"]

\* SimpleLaptimer::new_with_source, were the timer to begin in
\* WaitingForFinish
LaptimerNewWaitingForFinish ==
    [running |-> FALSE, track |-> <<>>, last_positions |-> <<>>,
     state |-> "WaitingForFinish", elapsed_time_source |-> <<>>,
     sector |-> 0, sector_start |-> 0]

\* SimpleLaptimer::new_with_source; elapsed_time_source is <<>> while the
\* source was not started, else <<e>>, e the ticks since it was started
LaptimerNew ==
    [running |-> FALSE, track |-> <<>>, last_positions |-> <<>>,
     state |-> "WaitingForFirstStart", elapsed_time_source |-> <<>>,
     sector |-> 0, sector_start |-> 0]

\* ActiveSession::new
ActiveSessionNew == [running |-> FALSE, session |-> <<>>, active_lap |-> <<>>]

\* what is remembered of the lap timer's past.  pre: the state the last
\* evaluation began in; crossed: it found its marker passed; out: the events
\* it published; sum: the sector times published since the last LapStarted;
\* lap: the time of the last LapFinished and the sum at that moment, <<>>
\* before the first; laps: the number of LapFinished; panicked: an
\* evaluation panicked; phase: "before" the first LapStarted, in a "lap"
\* after a LapStarted, "between" two laps after a LapFinished, "broken"
\* once an event was published out of this order.  Of the session builder's past: seen: the sector
\* times and the fixes it took from its inbox since the last LapStarted it
\* took; finish: <<>> before it took a LapFinished, then the last one:
\* its fields before and after, what it had seen, what it published
NoLapHist ==
    [pre |-> "None", crossed |-> FALSE, out |-> <<>>, sum |-> 0, lap |-> <<>>,
     laps |-> 0, panicked |-> FALSE, phase |-> "before",
     seen |-> [sectors |-> <<>>, log_points |-> <<>>], finish |-> <<>>]

LapIdle ==
    /\ laptimer = LaptimerNew
    /\ activeSession = ActiveSessionNew
    /\ gnss = [route |-> <<>>, next |-> 1]
    /\ lapHist = NoLapHist

NoDetect == [position |-> <<>>, tracks |-> <<>>, payloads |-> {}]

\* what is remembered of the detector's past.  received: the
\* DetectTrackRequests taken from the inbox, in order; loaded: a catalog
\* response was handled; early: a response was sent while the position or the
\* tracks were missing; held: the most requests a handler left pending;
\* last: the position and the tracks the last answering drain used and the
\* payloads it sent
NoHist ==
    [received |-> <<>>, loaded |-> FALSE, early |-> FALSE, held |-> 0,
     last |-> NoDetect]

\* the state of the modules when they are not driven
ModsIdle ==
    /\ modules = {}
    /\ inbox = [m \in ModuleNames |-> <<>>]
    /\ busLog = <<>>
    /\ returned = NotReturned
    /\ envLeft = [requests |-> 0, detects |-> 0, fixes |-> 0, feeds |-> 0,
                  quits |-> 0]
    /\ sessionFiles = <<>>
    /\ infoFiles = <<>>
    /\ trackFiles = <<>>
    /\ sessionDir = TRUE
    /\ unsynced = {}
    /\ detStarted = FALSE
    /\ detPosition = <<>>
    /\ detPending = <<>>
    /\ detTracks = <<>>
    /\ detHist = NoHist
    /\ LapIdle

RxCnt == Cardinality({s \in DOMAIN subs : subs[s].active})

\* the threads that construct buses
IdThreads == {"t1", "t2"}

NoCall == [pc |-> "idle", id |-> 0, ticket |-> 0]

\* no bus was constructed yet
IdIdle ==
    /\ BUS_ID = 0
    /\ newCalls = [t \in IdThreads |-> NoCall]
    /\ buses = <<>>

BusIdle ==
    /\ IdIdle
    /\ pubCount = 0
    /\ tail = 0
    /\ buffer = [i \in 0..(BufferLen - 1) |-> [pos |-> -1, ev |-> NoEvent]]
    /\ subs = [s \in Subs |-> NoSub]
    /\ lastRecv = [s \in Subs |-> NoRecv]

\* a new receiver placed at the oldest event the channel retains
SubscribeStartReplay == IF tail > BufferLen THEN tail - BufferLen ELSE tail - pubCount

\* the position a new receiver starts at: the tail
SubscribeStart == tail

\* EventBus::subscribe: a receiver that starts at the tail of the channel
Subscribe(s) ==
    /\ ~subs[s].active
    /\ pubCount <= MaxSubscribeAt
    /\ subs' = [subs EXCEPT ![s] = [active |-> TRUE, next |-> SubscribeStart,
                                    subAt |-> pubCount, got |-> 0, lagged |-> FALSE]]
    /\ lastRecv' = [lastRecv EXCEPT ![s] = NoRecv]
    /\ UNCHANGED <<pubCount, tail, buffer>>
    /\ UNCHANGED notBus

\* a drop that also moves every other receiver to the tail
DropSubscriptionDisturbing(s) ==
    /\ subs[s].active
    /\ subs' = [x \in DOMAIN subs |->
                  IF x = s THEN NoSub ELSE [subs[x] EXCEPT !.next = tail]]
    /\ lastRecv' = [lastRecv EXCEPT ![s] = NoRecv]
    /\ UNCHANGED <<pubCount, tail, buffer>>
    /\ UNCHANGED notBus

\* dropping a receiver
DropSubscription(s) ==
    /\ subs[s].active
    /\ subs' = [subs EXCEPT ![s] = NoSub]
    /\ lastRecv' = [lastRecv EXCEPT ![s] = NoRecv]
    /\ UNCHANGED <<pubCount, tail, buffer>>
    /\ UNCHANGED notBus

\* a publish that waits while the queue of a subscription is full
PublishWhenRoom ==
    /\ pubCount < MaxPublish
    /\ \A s \in DOMAIN subs : subs[s].active => tail - subs[s].next < BufferLen
    /\ pubCount' = pubCount + 1
    /\ IF RxCnt = 0
       THEN UNCHANGED <<tail, buffer>>
       ELSE /\ buffer' = [buffer EXCEPT ![tail % BufferLen] =
                              [pos |-> tail, ev |-> pubCount + 1]]
            /\ tail' = tail + 1
    /\ UNCHANGED <<subs, lastRecv>>
    /\ UNCHANGED notBus

\* EventBus::publish: Sender::send; with no receiver the value is handed back
\* and the result is ignored
Publish ==
    /\ pubCount < MaxPublish
    /\ pubCount' = pubCount + 1
    /\ IF RxCnt = 0
       THEN UNCHANGED <<tail, buffer>>
       ELSE /\ buffer' = [buffer EXCEPT ![tail % BufferLen] =
                              [pos |-> tail, ev |-> pubCount + 1]]
            /\ tail' = tail + 1
    /\ UNCHANGED <<subs, lastRecv>>
    /\ UNCHANGED notBus

\* a lagging receiver moved to the newest event
LagResumePosNewest == tail - 1

\* the position a lagging receiver is moved to: the oldest event retained
LagResumePos == tail - BufferLen

\* Receiver::recv once a value or a lag signal is available
Recv(s) ==
    /\ subs[s].active
    /\ subs[s].next # tail
    /\ LET nxt == subs[s].next
           slot == buffer[nxt % BufferLen]
           oldestPos == IF tail > BufferLen THEN tail - BufferLen ELSE 0
       IN  IF slot.pos # nxt
           THEN /\ subs' = [subs EXCEPT ![s].next = LagResumePos, ![s].lagged = TRUE]
                /\ lastRecv' = [lastRecv EXCEPT ![s] =
                       [kind |-> "Lagged", val |-> NoEvent, n |-> LagResumePos - nxt,
                        backlog |-> tail - nxt, oldest |-> FALSE, newest |-> FALSE,
                        prev |-> lastRecv[s].kind]]
           ELSE /\ subs' = [subs EXCEPT ![s].next = nxt + 1, ![s].got = @ + 1]
                /\ lastRecv' = [lastRecv EXCEPT ![s] =
                       [kind |-> "Ok", val |-> slot.ev, n |-> 0, backlog |-> 0,
                        oldest |-> (nxt = oldestPos), newest |-> (nxt = tail - 1),
                        prev |-> lastRecv[s].kind]]
    /\ UNCHANGED <<pubCount, tail, buffer>>
    /\ UNCHANGED notBus

BusInit == BusIdle /\ WaitIdle /\ SourceIdle /\ SaveIdle /\ ModsIdle

BusNext ==
    \/ \E s \in Subs : Subscribe(s)
    \/ \E s \in Subs : DropSubscription(s)
    \/ Publish
    \/ \E s \in Subs : Recv(s)

SpecBus == BusInit /\ [][BusNext]_vars

----------------------------------------------------------------------------
(***************************************************************************)
(* Two subscriptions of one bus.  Both were created before the first       *)
(* publish; DropStart events were published since, of which each           *)
(* subscription has received all or none.                                  *)
(***************************************************************************)
DropSubs == {"s1", "s2"}

DropStart == 127       \* events published before the exploration begins
MaxDropPublish == 131  \* SpecDrop: publish calls explored, those before included

\* the ring after n events were published to a subscription
RingAfter(n) ==
    [i \in 0..(BufferLen - 1) |->
        LET last == CHOOSE q \in (n - BufferLen)..(n - 1) : q % BufferLen = i
        IN  IF last < 0 THEN [pos |-> -1, ev |-> NoEvent]
            ELSE [pos |-> last, ev |-> last + 1]]

DropInit ==
    /\ IdIdle
    /\ WaitIdle
    /\ SourceIdle /\ SaveIdle
    /\ ModsIdle
    /\ pubCount = DropStart
    /\ tail = DropStart
    /\ buffer = RingAfter(DropStart)
    /\ \E took \in [DropSubs -> {0, DropStart}] :
          /\ subs = [s \in DropSubs |->
                        [active |-> TRUE, next |-> took[s], subAt |-> 0,
                         got |-> took[s], lagged |-> FALSE]]
          /\ lastRecv = [s \in DropSubs |->
                            IF took[s] = 0 THEN NoRecv
                            ELSE [kind |-> "Ok", val |-> DropStart, n |-> 0,
                                  backlog |-> 0, oldest |-> FALSE, newest |-> TRUE,
                                  prev |-> "Ok"]]

DropPublish ==
    /\ pubCount < MaxDropPublish
    /\ Publish

DropNext ==
    \/ DropPublish
    \/ \E s \in DropSubs : Recv(s)
    \/ \E s \in DropSubs : DropSubscription(s)

SpecDrop == DropInit /\ [][DropNext]_vars

----------------------------------------------------------------------------
(***************************************************************************)
(* The ids of the buses.  EventBus::new takes the id from the static       *)
(* counter with fetch_add and then stores the id it took back into the     *)
(* counter; the two are atomic operations of their own, between which      *)
(* another thread may run.  A context copies the id of its bus, a clone    *)
(* the id of the context it is cloned from.                                *)
(***************************************************************************)
MaxBuses == 3      \* buses constructed
MaxContexts == 2   \* contexts derived from one bus

\* the calls of EventBus::new begun so far
NewCallsBegun == Len(buses) + Cardinality({t \in IdThreads : newCalls[t].pc # "idle"})

\* EventBus::new, BUS_ID.fetch_add(1): the id is the value the counter held
NewFetchAdd(t) ==
    /\ newCalls[t].pc = "idle"
    /\ NewCallsBegun < MaxBuses
    /\ newCalls' = [newCalls EXCEPT ![t] =
                        [pc |-> "store", id |-> BUS_ID, ticket |-> NewCallsBegun + 1]]
    /\ BUS_ID' = BUS_ID + 1
    /\ UNCHANGED buses
    /\ UNCHANGED <<busVars, waitVars, srcVars, saveVars, modVars, returned, storeVars, detVars,
                   lapVars>>

\* EventBus::new, BUS_ID.store(id), and the bus is constructed with the id
NewStore(t) ==
    /\ newCalls[t].pc = "store"
    /\ BUS_ID' = newCalls[t].id
    /\ buses' = Append(buses, [id |-> newCalls[t].id, ticket |-> newCalls[t].ticket,
                               ctxs |-> <<>>])
    /\ newCalls' = [newCalls EXCEPT ![t] = NoCall]
    /\ UNCHANGED <<busVars, waitVars, srcVars, saveVars, modVars, returned, storeVars, detVars,
                   lapVars>>

\* EventBus::context, ModuleCtx::new: the context takes the id of the bus
Context(b) ==
    /\ Len(buses[b].ctxs) < MaxContexts
    /\ buses' = [buses EXCEPT ![b].ctxs = Append(@, buses[b].id)]
    /\ UNCHANGED <<BUS_ID, newCalls>>
    /\ UNCHANGED <<busVars, waitVars, srcVars, saveVars, modVars, returned, storeVars, detVars,
                   lapVars>>

\* ModuleCtx::clone: the clone takes the id of the context
CloneCtx(b, c) ==
    /\ Len(buses[b].ctxs) < MaxContexts
    /\ buses' = [buses EXCEPT ![b].ctxs = Append(@, buses[b].ctxs[c])]
    /\ UNCHANGED <<BUS_ID, newCalls>>
    /\ UNCHANGED <<busVars, waitVars, srcVars, saveVars, modVars, returned, storeVars, detVars,
                   lapVars>>

IdNext ==
    \/ \E t \in IdThreads : NewFetchAdd(t)
    \/ \E t \in IdThreads : NewStore(t)
    \/ \E b \in DOMAIN buses : Context(b)
    \/ \E b \in DOMAIN buses : \E c \in DOMAIN buses[b].ctxs : CloneCtx(b, c)

SpecIds == BusInit /\ [][IdNext]_vars

----------------------------------------------------------------------------
(***************************************************************************)
(* ModuleCtx::wait_for_event.  The context's receiver is a queue of items: *)
(* events, lag signals, and the closing of the channel.                    *)
(***************************************************************************)
WaitIds == {1, 2}
WaitAddrs == {7, 8}
WaitKinds == {"LoadStoredSessionIdsResponseEvent", "LoadStoredSessionIdsRequestEvent"}

WaitEvents ==
    {Ev(k, i, a, <<>>) : k \in WaitKinds, i \in WaitIds, a \in WaitAddrs}
        \cup {Plain("QuitEvent", <<>>)}

LagSignal == Plain("Lagged", <<>>)
ClosedSignal == Plain("Closed", <<>>)

QueueClosed == ctxQueue # <<>> /\ ctxQueue[Len(ctxQueue)] = ClosedSignal

\* an event, a lag signal or the closing of the channel reaches the receiver
CtxDeliver(item) ==
    /\ ctxSent < MaxCtxSent
    /\ ~QueueClosed
    /\ ctxQueue' = Append(ctxQueue, item)
    /\ ctxSent' = ctxSent + 1
    /\ UNCHANGED <<waitPc, waitArgs, waitResult, waitSkipped, waitLog, waitClock>>
    /\ UNCHANGED notWait

\* the event the caller of wait_for_event(id, addr, kind) is waiting for
IsAwaited(e, args) ==
    /\ e.kind = args.kind
    /\ EventId(e) = args.id
    /\ EventAddr(e) = args.addr

\* the test without the address
WaitMatchesIdOnly(e, args) ==
    /\ e.kind = args.kind
    /\ EventId(e) = args.id

\* the test of the receive loop
WaitMatches(e, args) ==
    /\ e.kind = args.kind
    /\ EventId(e) = args.id
    /\ EventAddr(e) = args.addr

\* the Duration of the timeout of wait_for_event, in seconds
WaitSeconds == 20

\* ModuleCtx::wait_for_event is called: the timeout around the receive loop
\* is created with its deadline
WaitCall(id, addr, kind) ==
    /\ waitPc = "idle"
    /\ waitPc' = "waiting"
    /\ waitArgs' = [id |-> id, addr |-> addr, kind |-> kind]
    /\ waitClock' = [waitClock EXCEPT !.called = waitClock.now,
                                      !.deadline = waitClock.now + WaitSeconds]
    /\ UNCHANGED <<ctxQueue, ctxSent, waitResult, waitSkipped, waitLog>>
    /\ UNCHANGED notWait

\* one turn of the receive loop, were a lag signal a receive error
WaitRecvLagEnds ==
    /\ waitPc = "waiting"
    /\ ctxQueue # <<>>
    /\ LET item == Head(ctxQueue)
       IN  /\ ctxQueue' = Tail(ctxQueue)
           /\ IF item = LagSignal \/ item = ClosedSignal
              THEN /\ waitPc' = "done"
                   /\ waitResult' = [kind |-> "ReceiveError", event |-> Plain("None", <<>>)]
                   /\ UNCHANGED waitSkipped
              ELSE IF WaitMatches(item, waitArgs)
              THEN /\ waitPc' = "done"
                   /\ waitResult' = [kind |-> "Ok", event |-> item]
                   /\ UNCHANGED waitSkipped
              ELSE /\ waitSkipped' = (waitSkipped \/ IsAwaited(item, waitArgs))
                   /\ UNCHANGED <<waitPc, waitResult>>
    /\ waitClock' = [waitClock EXCEPT !.done = waitClock.now]
    /\ UNCHANGED <<ctxSent, waitArgs, waitLog>>
    /\ UNCHANGED notWait

\* one turn of the receive loop, were the timeout around each receive and
\* not around the loop
WaitRecvExtending ==
    /\ waitPc = "waiting"
    /\ ctxQueue # <<>>
    /\ LET item == Head(ctxQueue)
       IN  /\ ctxQueue' = Tail(ctxQueue)
           /\ IF item = LagSignal
              THEN UNCHANGED <<waitPc, waitResult, waitSkipped>>
              ELSE IF item = ClosedSignal
              THEN /\ waitPc' = "done"
                   /\ waitResult' = [kind |-> "ReceiveError", event |-> Plain("None", <<>>)]
                   /\ UNCHANGED waitSkipped
              ELSE IF WaitMatches(item, waitArgs)
              THEN /\ waitPc' = "done"
                   /\ waitResult' = [kind |-> "Ok", event |-> item]
                   /\ UNCHANGED waitSkipped
              ELSE /\ waitSkipped' = (waitSkipped \/ IsAwaited(item, waitArgs))
                   /\ UNCHANGED <<waitPc, waitResult>>
    /\ waitClock' = [waitClock EXCEPT !.done = waitClock.now,
                                      !.deadline = waitClock.now + WaitSeconds]
    /\ UNCHANGED <<ctxSent, waitArgs, waitLog>>
    /\ UNCHANGED notWait

\* one turn of the receive loop
WaitRecv ==
    /\ waitPc = "waiting"
    /\ ctxQueue # <<>>
    /\ LET item == Head(ctxQueue)
       IN  /\ ctxQueue' = Tail(ctxQueue)
           /\ IF item = LagSignal
              THEN UNCHANGED <<waitPc, waitResult, waitSkipped>>
              ELSE IF item = ClosedSignal
              THEN /\ waitPc' = "done"
                   /\ waitResult' = [kind |-> "ReceiveError", event |-> Plain("None", <<>>)]
                   /\ UNCHANGED waitSkipped
              ELSE IF WaitMatches(item, waitArgs)
              THEN /\ waitPc' = "done"
                   /\ waitResult' = [kind |-> "Ok", event |-> item]
                   /\ UNCHANGED waitSkipped
              ELSE /\ waitSkipped' = (waitSkipped \/ IsAwaited(item, waitArgs))
                   /\ UNCHANGED <<waitPc, waitResult>>
    /\ waitClock' = [waitClock EXCEPT !.done = waitClock.now]
    /\ UNCHANGED <<ctxSent, waitArgs, waitLog>>
    /\ UNCHANGED notWait

\* the 20 s timer of wait_for_event expires before a match was received
WaitTimeout ==
    /\ waitPc = "waiting"
    /\ waitPc' = "done"
    /\ waitResult' = [kind |-> "ReceiveTimeout", event |-> Plain("None", <<>>)]
    /\ waitClock' = [waitClock EXCEPT !.done = waitClock.now]
    /\ UNCHANGED <<ctxQueue, ctxSent, waitArgs, waitSkipped, waitLog>>
    /\ UNCHANGED notWait

WaitInit == WaitIdle /\ SourceIdle /\ SaveIdle /\ BusIdle /\ ModsIdle

WaitNext ==
    \/ \E item \in WaitEvents \cup {LagSignal, ClosedSignal} : CtxDeliver(item)
    \/ \E i \in WaitIds, a \in WaitAddrs, k \in WaitKinds : WaitCall(i, a, k)
    \/ WaitRecv
    \/ WaitTimeout

SpecWait == WaitInit /\ [][WaitNext]_vars

----------------------------------------------------------------------------
(***************************************************************************)
(* Two requests on one context.  A module has published two                *)
(* LoadStoredSessionIdsRequests, with the ids 1 and 2, and waits for the   *)
(* response to each with wait_for_event on its one receiver; a wait takes  *)
(* the context by &mut, so the second call begins when the first returned. *)
(***************************************************************************)
PairAddr == 255

PairResponse(id) == Ev("LoadStoredSessionIdsResponseEvent", id, PairAddr, <<>>)

\* what reaches the receiver: the two responses, a response to another
\* module, an event without id, a lag signal
PairItems ==
    {PairResponse(1), PairResponse(2),
     Ev("LoadStoredSessionIdsResponseEvent", 1, 8, <<>>),
     Plain("QuitEvent", <<>>), LagSignal}

\* an item reaches the receiver
PairDeliver(item) ==
    /\ ctxSent < MaxCtxSent
    /\ ctxQueue' = Append(ctxQueue, item)
    /\ ctxSent' = ctxSent + 1
    /\ waitLog' = [waitLog EXCEPT !.delivered = Append(@, item)]
    /\ UNCHANGED <<waitPc, waitArgs, waitResult, waitSkipped, waitClock>>
    /\ UNCHANGED notWait

\* the module waits for the response to the request id, once
PairWait(id) ==
    /\ \A k \in DOMAIN waitLog.returned : waitLog.returned[k].args.id # id
    /\ WaitCall(id, PairAddr, "LoadStoredSessionIdsResponseEvent")

\* the 20 s pass while the receiver holds nothing
PairTimeout ==
    /\ ctxQueue = <<>>
    /\ WaitTimeout

\* wait_for_event returns to its caller
WaitReturn ==
    /\ waitPc = "done"
    /\ waitPc' = "idle"
    /\ waitLog' = [waitLog EXCEPT !.returned =
                       Append(@, [args |-> waitArgs, result |-> waitResult,
                                  taken |-> ctxSent - Len(ctxQueue)])]
    /\ waitSkipped' = FALSE
    /\ UNCHANGED <<ctxQueue, ctxSent, waitArgs, waitResult, waitClock>>
    /\ UNCHANGED notWait

PairNext ==
    \/ \E item \in PairItems : PairDeliver(item)
    \/ \E id \in WaitIds : PairWait(id)
    \/ WaitRecv
    \/ PairTimeout
    \/ WaitReturn

SpecPair == WaitInit /\ [][PairNext]_vars

----------------------------------------------------------------------------
(***************************************************************************)
(* wait_for_event and the time.  Time passes in steps of TickSeconds; the  *)
(* timer of the timeout wakes the waiting task at the deadline, and a poll *)
(* of the timeout polls the receive loop before it looks at the timer.     *)
(***************************************************************************)
TickSeconds == 10   \* SpecDeadline: the time between two looks at the clock
MaxNow == 40        \* SpecDeadline: the time at which the drive ends
MaxWaits == 2       \* SpecDeadline: calls of wait_for_event

DeadlineArgs == [id |-> 1, addr |-> 7, kind |-> "LoadStoredSessionIdsResponseEvent"]

\* what reaches the receiver: the response waited for, a response to
\* another module, an event without id, a lag signal, the closing
DeadlineItems ==
    {Ev(DeadlineArgs.kind, 1, 7, <<>>), Ev(DeadlineArgs.kind, 1, 8, <<>>),
     Plain("QuitEvent", <<>>), LagSignal, ClosedSignal}

\* an item reaches the receiver
DeadlineDeliver(item) ==
    /\ ctxSent < MaxCtxSent
    /\ ~ClosedSignal \in {waitLog.delivered[k] : k \in DOMAIN waitLog.delivered}
    /\ ctxQueue' = Append(ctxQueue, item)
    /\ ctxSent' = ctxSent + 1
    /\ waitLog' = [waitLog EXCEPT !.delivered = Append(@, item)]
    /\ UNCHANGED <<waitPc, waitArgs, waitResult, waitSkipped, waitClock>>
    /\ UNCHANGED notWait

\* a module calls wait_for_event
DeadlineCall ==
    /\ Len(waitLog.returned) < MaxWaits
    /\ WaitCall(DeadlineArgs.id, DeadlineArgs.addr, DeadlineArgs.kind)

\* time passes, up to the next instant looked at: the deadline of the wait
\* under way if it comes first; the timer lets no wait go on beyond it
Tick ==
    /\ waitClock.now < MaxNow
    /\ ~(waitPc = "waiting" /\ waitClock.now >= waitClock.deadline)
    /\ waitClock' =
          [waitClock EXCEPT
             !.now = IF waitPc = "waiting" /\ @ + TickSeconds > waitClock.deadline
                     THEN waitClock.deadline
                     ELSE @ + TickSeconds]
    /\ UNCHANGED <<ctxQueue, ctxSent, waitPc, waitArgs, waitResult, waitSkipped, waitLog>>
    /\ UNCHANGED notWait

\* timeout(20 s, func): at the deadline, with the receive loop pending
DeadlineTimeout ==
    /\ waitClock.now >= waitClock.deadline
    /\ ctxQueue = <<>>
    /\ WaitTimeout

DeadlineNext ==
    \/ \E item \in DeadlineItems : DeadlineDeliver(item)
    \/ DeadlineCall
    \/ Tick
    \/ WaitRecv
    \/ DeadlineTimeout
    \/ WaitReturn

SpecDeadline == WaitInit /\ [][DeadlineNext]_vars

----------------------------------------------------------------------------
(***************************************************************************)
(* ElapsedTestTimeSource.  A test sends durations through the sender of    *)
(* the source's channel; the source receives from it when it is read.      *)
(***************************************************************************)
MaxInjected == 4   \* SpecSource: durations sent
MaxStarts == 2     \* SpecSource: calls of start

\* the durations sent, in seconds
TestDurations == {10, 20, 30}

\* ElapsedTestTimeSource::receive, were the channel drained
ReceiveAll(src) ==
    IF src.receiver # <<>>
    THEN [receiver |-> <<>>, duration |-> src.receiver[Len(src.receiver)]]
    ELSE src

\* ElapsedTestTimeSource::receive: one try_recv, whose duration, if there
\* is one, replaces the one held
Receive(src) ==
    IF src.receiver # <<>>
    THEN [receiver |-> Tail(src.receiver), duration |-> Head(src.receiver)]
    ELSE src

notSource == <<busVars, idVars, waitVars, saveVars, modVars, returned, storeVars, detVars, lapVars>>

\* set_elapsed_time
SetElapsedTime(duration) ==
    /\ Len(timeLog.injected) < MaxInjected
    /\ timeSource' = [timeSource EXCEPT !.receiver = Append(@, duration)]
    /\ timeLog' = [timeLog EXCEPT !.injected = Append(@, duration)]
    /\ UNCHANGED notSource

\* ElapsedTimeSource::start of the test source
TestStart ==
    /\ timeLog.starts < MaxStarts
    /\ timeLog' = [timeLog EXCEPT !.starts = @ + 1]
    /\ UNCHANGED timeSource
    /\ UNCHANGED notSource

\* ElapsedTimeSource::elapsed_time of the test source
TestElapsedTime ==
    /\ timeSource' = Receive(timeSource)
    /\ timeLog' = [timeLog EXCEPT !.read = <<[value |-> timeSource'.duration,
                                              at |-> Len(timeLog.injected)]>>]
    /\ UNCHANGED notSource

SourceNext ==
    \/ \E duration \in TestDurations : SetElapsedTime(duration)
    \/ TestStart
    \/ TestElapsedTime

SpecSource == BusInit /\ [][SourceNext]_vars

----------------------------------------------------------------------------
(***************************************************************************)
(* Properties of wait_for_event (SpecWait).                                *)
(***************************************************************************)

\* C2: wait_for_event(id, addr, kind) returns Ok(e) only for an event e of
\* that kind, id and address, and no event agreeing on all three was
\* received and passed over before e since the call.
C2_WaitReturnsFirstMatch ==
    waitResult.kind = "Ok" =>
        /\ waitResult.event.kind = waitArgs.kind
        /\ waitResult.event.id = waitArgs.id
        /\ waitResult.event.addr = waitArgs.addr
        /\ ~waitSkipped

\* a wait returned its event after events agreeing on one or two of the
\* three were received
C2_Witness ==
    /\ waitResult.kind = "Ok"
    /\ ctxSent >= 3
    /\ ctxQueue = <<>>

----------------------------------------------------------------------------
(***************************************************************************)
(* Properties of the channel (SpecBus).                                    *)
(***************************************************************************)

C7_InOrderNoReplay ==
    \A s \in Subs :
        (subs[s].active /\ ~subs[s].lagged) =>
            /\ lastRecv[s].kind = "Ok" => lastRecv[s].val = subs[s].subAt + subs[s].got
            /\ subs[s].got <= pubCount - subs[s].subAt
            /\ lastRecv[s].kind = "None" => subs[s].got = 0

\* a subscription created after events were published has received two
\* events without lagging
C7_Witness ==
    \E s \in Subs :
        /\ subs[s].active /\ ~subs[s].lagged
        /\ subs[s].subAt > 0
        /\ subs[s].got >= 2
        /\ lastRecv[s].kind = "Ok"

\* C22: a publish is possible in every state of the bus, with no
\* subscription and with a subscription whose queue is full alike, and it
\* has no outcome but the event being sent or discarded; what a subscription
\* receives was published after the subscription was created, so an event
\* published to no subscriber is observed by none.
C22_PublishNeverBlocks ==
    /\ pubCount < MaxPublish => ENABLED Publish
    /\ \A s \in DOMAIN subs :
          (subs[s].active /\ lastRecv[s].kind = "Ok") => lastRecv[s].val > subs[s].subAt

\* two events were published to no subscriber and discarded; the
\* subscription created then was sent more than its queue holds and has
\* received an event
C22_Witness ==
    \E s \in DOMAIN subs :
        /\ subs[s].active
        /\ subs[s].subAt = 2
        /\ pubCount - subs[s].subAt > BufferLen
        /\ tail = pubCount - subs[s].subAt
        /\ lastRecv[s].kind = "Ok"

\* the events subscription s has yet to receive, in the order it will
Pending(s) ==
    LET from == IF tail - subs[s].next > BufferLen THEN tail - BufferLen
                ELSE subs[s].next
    IN  [k \in 1..(tail - from) |-> buffer[(from + k - 1) % BufferLen].ev]

\* the number of events the next lag signal of s will report
LagCount(s) ==
    IF tail - subs[s].next > BufferLen THEN tail - BufferLen - subs[s].next ELSE 0

\* C23: the drop of one subscription leaves the cursor of every other
\* subscription, the events it has yet to receive, their order and the
\* number of events it will be told it missed as they were; and an event
\* published while another subscription is dropped becomes the last of the
\* events a remaining subscription has yet to receive.
C23_DropLeavesOthersUntouched ==
    [][/\ \A s, t \in DOMAIN subs :
             (s # t /\ subs[s].active /\ ~subs'[s].active /\ subs[t].active) =>
                 /\ subs'[t] = subs[t]
                 /\ lastRecv'[t] = lastRecv[t]
                 /\ Pending(t)' = Pending(t)
                 /\ LagCount(t)' = LagCount(t)
       /\ \A s, t \in DOMAIN subs :
             (s # t /\ ~subs[s].active /\ subs[t].active /\ pubCount' = pubCount + 1) =>
                 /\ Len(Pending(t)') >= 1
                 /\ Pending(t)'[Len(Pending(t)')] = pubCount']_vars

\* the first subscription was dropped; the second, which had received
\* nothing, was told that it lagged and has then received every event the
\* channel retained, up to the newest
C23_Witness ==
    /\ ~subs["s1"].active
    /\ subs["s2"].active
    /\ subs["s2"].lagged
    /\ lastRecv["s2"].kind = "Ok"
    /\ lastRecv["s2"].val = MaxDropPublish
    /\ subs["s2"].got = BufferLen

----------------------------------------------------------------------------
(***************************************************************************)
(* FilesSystemStorage.  A folder is a function from file ids to contents.  *)
(***************************************************************************)
EmptyFolder == [x \in {} |-> Garbage]

WriteFile(folder, id, content) == (id :> content) @@ folder

RemoveFile(folder, id) == [x \in DOMAIN folder \ {id} |-> folder[x]]

Ok(v) == [ok |-> TRUE, val |-> v]
Err(kind) == [ok |-> FALSE, val |-> kind]

\* a response addressed to 0 whatever the request's sender
ResponseToFixedAddr(kind, req, data) == Ev(kind, req.id, 0, data)

\* Response { id: request.id, receiver_addr: request.sender_addr, data }
Response(kind, req, data) == Ev(kind, req.id, req.addr, data)

\* load_session_infos, were the infos sorted descending
LoadSessionInfosDescending ==
    IF ~sessionDir THEN <<>> ELSE
    LET ids == {infoFiles[f].id : f \in {g \in DOMAIN infoFiles : infoFiles[g] # Garbage}}
        sorted == SortIds(ids)
    IN  [i \in 1..Len(sorted) |->
            infoFiles[CHOOSE f \in DOMAIN infoFiles :
                         infoFiles[f] # Garbage
                         /\ infoFiles[f].id = sorted[Len(sorted) + 1 - i]]]

\* FilesSystemStorage::load_session_infos and the handler's fallback: the
\* parsed infos, sorted by id
LoadSessionInfos ==
    IF ~sessionDir THEN <<>> ELSE
    LET ids == {infoFiles[f].id : f \in {g \in DOMAIN infoFiles : infoFiles[g] # Garbage}}
        sorted == SortIds(ids)
    IN  [i \in 1..Len(sorted) |->
            infoFiles[CHOOSE f \in DOMAIN infoFiles :
                         infoFiles[f] # Garbage /\ infoFiles[f].id = sorted[i]]]

\* handle_load_stored_ids_request
HandleLoadStoredIdsRequest(req) ==
    /\ PublishSeq("storage",
          <<Response("LoadStoredSessionIdsResponseEvent", req, LoadSessionInfos)>>)
    /\ UNCHANGED storeVars

\* what may go wrong in one save: nothing, or one step of the writing of one
\* of the two files
NoFailure == [file |-> "none", step |-> "none"]

SaveFailures ==
    {NoFailure} \cup [file : {"session", "info"}, step : {"create", "write", "sync"}]

\* save_bytes, were a failing sync_all not reported
SaveBytesSyncUnchecked(files, uns, path, data, fail) ==
    CASE fail = "create" -> [files |-> files, unsynced |-> uns, ok |-> FALSE]
      [] fail = "write" ->
            [files |-> WriteFile(files, path[2], Garbage),
             unsynced |-> uns \cup {path}, ok |-> FALSE]
      [] fail = "sync" ->
            [files |-> WriteFile(files, path[2], data),
             unsynced |-> uns \cup {path}, ok |-> TRUE]
      [] OTHER ->
            [files |-> WriteFile(files, path[2], data),
             unsynced |-> uns \ {path}, ok |-> TRUE]

\* save_bytes on the file path = <<extension, id>> of the folder files:
\* File::create leaves the file empty, write_all fills it, sync_all flushes
\* it; the step fail does not succeed, and what stands in the file by then
\* stays there
SaveBytes(files, uns, path, data, fail) ==
    CASE fail = "create" -> [files |-> files, unsynced |-> uns, ok |-> FALSE]
      [] fail = "write" ->
            [files |-> WriteFile(files, path[2], Garbage),
             unsynced |-> uns \cup {path}, ok |-> FALSE]
      [] fail = "sync" ->
            [files |-> WriteFile(files, path[2], data),
             unsynced |-> uns \cup {path}, ok |-> FALSE]
      [] OTHER ->
            [files |-> WriteFile(files, path[2], data),
             unsynced |-> uns \ {path}, ok |-> TRUE]

\* handle_save_request: save writes <id>.session, then, if that went well,
\* <id>.info; failed names the step that fails, if one does.  Without the
\* folder no file can be created
HandleSaveRequest(req, session, failed) ==
    LET id == GetId(session)
        step(file) == IF ~sessionDir THEN "create"
                      ELSE IF failed.file = file THEN failed.step ELSE "none"
        s == SaveBytes(sessionFiles, unsynced, <<"session", id>>, ToJson(session),
                       step("session"))
        i == IF s.ok
             THEN SaveBytes(infoFiles, s.unsynced, <<"info", id>>,
                            SessionInfoOf(session), step("info"))
             ELSE [files |-> infoFiles, unsynced |-> s.unsynced, ok |-> FALSE]
    IN  /\ sessionFiles' = s.files
        /\ infoFiles' = i.files
        /\ unsynced' = i.unsynced
        /\ PublishSeq("storage",
              <<Response("SaveSessionResponseEvent", req,
                         <<IF i.ok THEN Ok(id)
                           ELSE IF ~sessionDir THEN Err("NotFound")
                           ELSE Err("IoError")>>)>>)
        /\ UNCHANGED <<trackFiles, sessionDir>>

\* handle_load_request
HandleLoadRequest(req) ==
    LET id == req.data[1]
        data == IF id \notin DOMAIN sessionFiles THEN Err("NotFound")
                ELSE IF sessionFiles[id] = Garbage THEN Err("InvalidData")
                ELSE Ok(FromJson(sessionFiles[id]))
    IN  /\ PublishSeq("storage", <<Response("LoadSessionResponseEvent", req, <<data>>)>>)
        /\ UNCHANGED storeVars

\* delete_info and delete: remove_file on a file of the folder; failed tells
\* that the removal of a file that is there does not succeed
Delete(files, id, failed) ==
    IF id \notin DOMAIN files THEN [files |-> files, result |-> Err("NotFound")]
    ELSE IF failed THEN [files |-> files, result |-> Err("PermissionDenied")]
    ELSE [files |-> RemoveFile(files, id), result |-> Ok("unit")]

\* Result::or: the result itself if it is Ok, else the other one
ResultOr(result, other) == IF result.ok THEN result ELSE other

\* handle_delete_request, were the session file removed also after the
\* removal of the info file failed
HandleDeleteRequestBoth(req, failed) ==
    LET id == req.data[1]
        i == Delete(infoFiles, id, failed = "info")
        s == Delete(sessionFiles, id, failed = "session")
        result == IF i.result.ok THEN ResultOr(s.result, i.result) ELSE i.result
    IN  /\ infoFiles' = i.files
        /\ sessionFiles' = s.files
        /\ unsynced' = {path \in unsynced :
                           \/ path[1] = "info" /\ path[2] \in DOMAIN i.files
                           \/ path[1] = "session" /\ path[2] \in DOMAIN s.files}
        /\ PublishSeq("storage",
              <<Response("DeleteSessionResponseEvent", req, <<result>>)>>)
        /\ UNCHANGED <<trackFiles, sessionDir>>

\* handle_delete_request, were the session file removed before the info file
HandleDeleteRequestSessionFirst(req, failed) ==
    LET id == req.data[1]
        s == Delete(sessionFiles, id, failed = "session")
        i == IF s.result.ok THEN Delete(infoFiles, id, failed = "info")
             ELSE [files |-> infoFiles, result |-> s.result]
        result == IF s.result.ok THEN ResultOr(i.result, s.result) ELSE s.result
    IN  /\ infoFiles' = i.files
        /\ sessionFiles' = s.files
        /\ unsynced' = {path \in unsynced :
                           \/ path[1] = "info" /\ path[2] \in DOMAIN i.files
                           \/ path[1] = "session" /\ path[2] \in DOMAIN s.files}
        /\ PublishSeq("storage",
              <<Response("DeleteSessionResponseEvent", req, <<result>>)>>)
        /\ UNCHANGED <<trackFiles, sessionDir>>

\* handle_delete_request: delete_info, then, if that went well, delete, whose
\* result is combined with the first by Result::or; failed names the file
\* whose removal fails, if one does
HandleDeleteRequest(req, failed) ==
    LET id == req.data[1]
        i == Delete(infoFiles, id, failed = "info")
        s == IF i.result.ok THEN Delete(sessionFiles, id, failed = "session")
             ELSE [files |-> sessionFiles, result |-> i.result]
        result == IF i.result.ok THEN ResultOr(s.result, i.result) ELSE i.result
    IN  /\ infoFiles' = i.files
        /\ sessionFiles' = s.files
        /\ unsynced' = {path \in unsynced :
                           \/ path[1] = "info" /\ path[2] \in DOMAIN i.files
                           \/ path[1] = "session" /\ path[2] \in DOMAIN s.files}
        /\ PublishSeq("storage",
              <<Response("DeleteSessionResponseEvent", req, <<result>>)>>)
        /\ UNCHANGED <<trackFiles, sessionDir>>

\* handle_load_stored_track_ids_request: the file ids, sorted
HandleLoadStoredTrackIdsRequest(req) ==
    /\ PublishSeq("storage",
          <<Response("LoadStoredTrackIdsResponseEvent", req,
                     [i \in 1..Len(trackFiles) |-> i])>>)
    /\ UNCHANGED storeVars

\* handle_all_load_stored_track_request: the tracks that parse, in id order
HandleAllLoadStoredTrackRequest(req) ==
    /\ PublishSeq("storage",
          <<Response("LoadAllStoredTracksResponseEvent", req,
                     SelectSeq(trackFiles, LAMBDA t : t # Garbage))>>)
    /\ UNCHANGED storeVars

\* the session a SaveSessionRequest carries: the request of the session
\* builder holds a pointer to the session it goes on building, which save
\* reads when the request is handled
ActiveRef == [ref |-> "active_session"]

Deref(data) == IF data = ActiveRef THEN activeSession.session[1] ELSE data

\* tokio::join! of main polls storage.run() first, then the run() of every
\* other module: the storage takes its first event after each of them has
\* published the request it starts with
AllStarted ==
    /\ "detector" \in modules => detStarted
    /\ "laptimer" \in modules => laptimer.running
    /\ "session" \in modules => activeSession.running

\* one turn of FilesSystemStorage::run
StorageRun ==
    /\ "storage" \in modules
    /\ AllStarted
    /\ returned["storage"] = "no"
    /\ inbox["storage"] # <<>>
    /\ Head(inbox["storage"]).kind # "QuitEvent"
    /\ LET req == Head(inbox["storage"])
       IN  CASE req.kind = "LoadStoredSessionIdsRequestEvent" ->
                    HandleLoadStoredIdsRequest(req)
             [] req.kind = "SaveSessionRequestEvent" ->
                    \E failed \in SaveFailures :
                        HandleSaveRequest(req, Deref(req.data[1]), failed)
             [] req.kind = "LoadSessionRequestEvent" -> HandleLoadRequest(req)
             [] req.kind = "DeleteSessionRequestEvent" ->
                    \E failed \in {"none", "info", "session"} :
                        HandleDeleteRequest(req, failed)
             [] req.kind = "LoadStoredTrackIdsRequest" ->
                    HandleLoadStoredTrackIdsRequest(req)
             [] req.kind = "LoadAllStoredTracksRequestEvent" ->
                    HandleAllLoadStoredTrackRequest(req)
    /\ UNCHANGED <<modules, envLeft>>
    /\ UNCHANGED detVars
    /\ UNCHANGED lapVars
    /\ UNCHANGED notMods

----------------------------------------------------------------------------
(***************************************************************************)
(* TrackDetection.                                                         *)
(***************************************************************************)
\* the responses handle_pending_requests sends for the pending requests: it
\* sends none while the position, the requests or the tracks are missing
\* the drain without the guard on the tracks
DrainAlsoWithoutTracks(position, pending, tracks) ==
    IF position = <<>> \/ pending = <<>> THEN <<>>
    ELSE LET detected == IsOnTrack(tracks, position[1], DetectionRadius)
         IN  [i \in 1..Len(pending) |->
                 Response("DetectTrackResponseEvent", pending[i], detected)]

\* the drain popping the requests from the back
DrainNewestFirst(position, pending, tracks) ==
    IF position = <<>> \/ pending = <<>> \/ tracks = <<>> THEN <<>>
    ELSE LET detected == IsOnTrack(tracks, position[1], DetectionRadius)
         IN  [i \in 1..Len(pending) |->
                 Response("DetectTrackResponseEvent", pending[Len(pending) + 1 - i],
                          detected)]

\* handle_pending_requests: the responses, in the order sent
DrainPending(position, pending, tracks) ==
    IF position = <<>> THEN <<>>
    ELSE IF pending = <<>> \/ tracks = <<>> THEN <<>>
    ELSE LET detected == IsOnTrack(tracks, position[1], DetectionRadius)
         IN  [i \in 1..Len(pending) |->
                 Response("DetectTrackResponseEvent", pending[i], detected)]

\* handle_pending_requests on the detector's state after the event was applied
HandlePendingRequests(position, pending, tracks, hist) ==
    LET out == DrainPending(position, pending, tracks)
    IN  /\ detPosition' = position
        /\ detTracks' = tracks
        /\ detPending' = IF out = <<>> THEN pending ELSE <<>>
        /\ detHist' = IF out = <<>>
                      THEN [hist EXCEPT
                               !.held = IF Len(pending) > @ THEN Len(pending) ELSE @]
                      ELSE [hist EXCEPT
                               !.early = @ \/ position = <<>> \/ tracks = <<>>,
                               !.last = [position |-> position, tracks |-> tracks,
                                         payloads |-> {out[i].data : i \in DOMAIN out}]]
        /\ PublishSeq("detector", out)

\* TrackDetection::run up to its loop: the request for the catalog
TrackDetectionStart ==
    /\ "detector" \in modules
    /\ ~detStarted
    /\ detStarted' = TRUE
    /\ inbox' = [inbox EXCEPT !["storage"] =
                    Append(@, Ev("LoadAllStoredTracksRequestEvent", 0, 20, <<>>))]
    /\ busLog' = Append(busLog, Ev("LoadAllStoredTracksRequestEvent", 0, 20, <<>>))
    /\ UNCHANGED <<modules, envLeft, detPosition, detPending, detTracks, detHist>>
    /\ UNCHANGED storeVars
    /\ UNCHANGED lapVars
    /\ UNCHANGED notMods

\* one turn of the loop of TrackDetection::run
TrackDetectionRun ==
    /\ "detector" \in modules
    /\ detStarted
    /\ returned["detector"] = "no"
    /\ inbox["detector"] # <<>>
    /\ Head(inbox["detector"]).kind # "QuitEvent"
    /\ LET e == Head(inbox["detector"])
       IN  CASE e.kind = "GnssPositionEvent" ->
                    HandlePendingRequests(<<e.data[1]>>, detPending, detTracks, detHist)
             [] e.kind = "LoadAllStoredTracksResponseEvent" ->
                    HandlePendingRequests(detPosition, detPending, e.data,
                                          [detHist EXCEPT !.loaded = TRUE])
             [] e.kind = "DetectTrackRequestEvent" ->
                    HandlePendingRequests(detPosition, Append(detPending, e), detTracks,
                                          [detHist EXCEPT !.received = Append(@, e)])
    /\ UNCHANGED <<modules, envLeft, detStarted>>
    /\ UNCHANGED storeVars
    /\ UNCHANGED lapVars
    /\ UNCHANGED notMods

----------------------------------------------------------------------------
(***************************************************************************)
(* The clients of SpecDetect: requests with any id and address, and the    *)
(* GNSS source.                                                            *)
(***************************************************************************)
\* the (id, sender_addr) pairs the clients use
ClientCorr == {<<10, 22>>, <<11, 100>>}

RequestData(kind) ==
    CASE kind = "SaveSessionRequestEvent" -> {<<x>> : x \in ClientSessions}
      [] kind \in {"LoadSessionRequestEvent", "DeleteSessionRequestEvent"} ->
            {<<x>> : x \in ClientIds}
      [] OTHER -> {<<>>}

ClientRequest(kind, id, addr, data) ==
    /\ IF kind = "DetectTrackRequestEvent"
       THEN /\ envLeft.detects > 0
            /\ envLeft' = [envLeft EXCEPT !.detects = @ - 1]
       ELSE /\ envLeft.requests > 0
            /\ envLeft' = [envLeft EXCEPT !.requests = @ - 1]
    /\ PublishSeq("env", <<Ev(kind, id, addr, data)>>)
    /\ UNCHANGED modules
    /\ UNCHANGED storeVars
    /\ UNCHANGED detVars
    /\ UNCHANGED lapVars
    /\ UNCHANGED notMods

GnssPosition(fix) ==
    /\ envLeft.fixes > 0
    /\ envLeft' = [envLeft EXCEPT !.fixes = @ - 1]
    /\ PublishSeq("env", <<Plain("GnssPositionEvent", <<fix>>)>>)
    /\ UNCHANGED modules
    /\ UNCHANGED storeVars
    /\ UNCHANGED detVars
    /\ UNCHANGED lapVars
    /\ UNCHANGED notMods

\* the storage and the detector, constructed and not yet run
ModsConstructed ==
    /\ BusIdle
    /\ WaitIdle
    /\ SourceIdle /\ SaveIdle
    /\ modules = {"storage", "detector"}
    /\ inbox = [m \in ModuleNames |-> <<>>]
    /\ busLog = <<>>
    /\ returned = NotReturned
    /\ sessionFiles = WriteFile(EmptyFolder, GetId(StoredSession), ToJson(StoredSession))
    /\ infoFiles = WriteFile(EmptyFolder, GetId(StoredSession), SessionInfoOf(StoredSession))
    /\ trackFiles \in TrackFolders
    /\ sessionDir = TRUE
    /\ unsynced = {}
    /\ detStarted = FALSE
    /\ detPosition = <<>>
    /\ detPending = <<>>
    /\ detTracks = <<>>
    /\ detHist = NoHist
    /\ LapIdle

\* SpecDetect: the detector's clients and the GNSS source send
DetectInit ==
    /\ ModsConstructed
    /\ envLeft = [requests |-> 0, detects |-> MaxDetects, fixes |-> MaxFixes, feeds |-> 0,
                  quits |-> 0]

\* SpecReq: clients send requests of every kind, one fix is reported, the
\* track folder holds two tracks
ReqInit ==
    /\ ModsConstructed
    /\ trackFiles = <<TrackWest, TrackEast>>
    /\ envLeft = [requests |-> MaxRequests, detects |-> MaxDetects, fixes |-> 1, feeds |-> 0,
                  quits |-> 0]

DetectNext ==
    \/ \E kind \in RequestKinds, c \in ClientCorr :
          \E data \in RequestData(kind) : ClientRequest(kind, c[1], c[2], data)
    \/ \E fix \in DetectFixes : GnssPosition(fix)
    \/ StorageRun
    \/ TrackDetectionStart
    \/ TrackDetectionRun

SpecDetect == DetectInit /\ [][DetectNext]_vars

SpecReq == ReqInit /\ [][DetectNext]_vars

----------------------------------------------------------------------------
(***************************************************************************)
(* The storage alone on the bus, on a session folder in one of the states  *)
(* a run may find it in.                                                   *)
(***************************************************************************)
\* the sessions the clients ask to save: without laps; with whole seconds as
\* sector times; the same with an id of its own; with a sector time of
\* 25.1445 s
StoreSessions ==
    {Session(1, TrackWest, <<>>),
     StoredSession,
     WithId(StoredSession, 10),
     Session(2, TrackWest, <<[sectors |-> <<25144500>>, log_points |-> <<Pos(0, 0)>>]>>)}

StoreIds == {GetId(x) : x \in StoreSessions}

StoreRequestKinds ==
    {"LoadStoredSessionIdsRequestEvent", "SaveSessionRequestEvent",
     "LoadSessionRequestEvent", "DeleteSessionRequestEvent"}

StoreRequestData(kind) ==
    CASE kind = "SaveSessionRequestEvent" -> {<<x>> : x \in StoreSessions}
      [] kind \in {"LoadSessionRequestEvent", "DeleteSessionRequestEvent"} ->
            {<<x>> : x \in StoreIds}
      [] OTHER -> {<<>>}

\* the session folder: missing; empty; one session; two sessions, the
\* session file of the second empty; the second an orphan without its info
\* file; the info file of the second unreadable; the session file of the
\* second missing
StoreFolders ==
    LET east == GetId(StoredSession)
        west == <<"oschersleben", 1>>
        one(files, content) == WriteFile(files, east, content)
        two(files, content) == WriteFile(files, west, content)
        session == one(EmptyFolder, ToJson(StoredSession))
        info == one(EmptyFolder, SessionInfoOf(StoredSession))
        westInfo == SessionInfoOf(Session(1, TrackWest, <<>>))
    IN  {[dir |-> FALSE, session |-> EmptyFolder, info |-> EmptyFolder],
         [dir |-> TRUE, session |-> EmptyFolder, info |-> EmptyFolder],
         [dir |-> TRUE, session |-> session, info |-> info],
         [dir |-> TRUE, session |-> two(session, Garbage), info |-> two(info, westInfo)],
         [dir |-> TRUE, session |-> two(session, ToJson(Session(1, TrackWest, <<>>))),
          info |-> info],
         [dir |-> TRUE, session |-> two(session, ToJson(Session(1, TrackWest, <<>>))),
          info |-> two(info, Garbage)],
         [dir |-> TRUE, session |-> session, info |-> two(info, westInfo)]}

StoreInit ==
    /\ BusIdle
    /\ WaitIdle
    /\ SourceIdle /\ SaveIdle
    /\ LapIdle
    /\ modules = {"storage"}
    /\ inbox = [m \in ModuleNames |-> <<>>]
    /\ busLog = <<>>
    /\ returned = NotReturned
    /\ envLeft = [requests |-> MaxStoreRequests, detects |-> 0, fixes |-> 0, feeds |-> 0,
                  quits |-> 0]
    /\ \E f \in StoreFolders :
          /\ sessionDir = f.dir
          /\ sessionFiles = f.session
          /\ infoFiles = f.info
    /\ trackFiles = <<>>
    /\ unsynced = {}
    /\ detStarted = FALSE
    /\ detPosition = <<>>
    /\ detPending = <<>>
    /\ detTracks = <<>>
    /\ detHist = NoHist

StoreNext ==
    \/ \E kind \in StoreRequestKinds, c \in ClientCorr :
          \E data \in StoreRequestData(kind) : ClientRequest(kind, c[1], c[2], data)
    \/ StorageRun

SpecStore == StoreInit /\ [][StoreNext]_vars

----------------------------------------------------------------------------
(***************************************************************************)
(* The storage alone, saving and deleting, on a folder in which every info *)
(* file has its session file; the process may end between any two file     *)
(* operations of a handler.                                                *)
(***************************************************************************)
MaxCrashRequests == 3   \* SpecCrash: requests sent to the storage

CrashFolders == {f \in StoreFolders : DOMAIN f.info \subseteq DOMAIN f.session}

\* the sessions saved, and deleted by their ids
CrashSessions == {Session(1, TrackWest, <<>>), StoredSession}

CrashRequestData(kind) ==
    IF kind = "SaveSessionRequestEvent" THEN {<<x>> : x \in CrashSessions}
    ELSE {<<GetId(x)>> : x \in CrashSessions}

\* the process ends inside save: before the step `at` of one of the two
\* files, or after the last step and before the response
SaveCrash(req, session, at) ==
    LET id == GetId(session)
        step(file) == IF ~sessionDir THEN "create"
                      ELSE IF at.file = file THEN at.step ELSE "none"
        s == SaveBytes(sessionFiles, unsynced, <<"session", id>>, ToJson(session),
                       step("session"))
        i == IF s.ok
             THEN SaveBytes(infoFiles, s.unsynced, <<"info", id>>,
                            SessionInfoOf(session), step("info"))
             ELSE [files |-> infoFiles, unsynced |-> s.unsynced, ok |-> FALSE]
    IN  /\ sessionFiles' = s.files
        /\ infoFiles' = i.files
        /\ unsynced' = i.unsynced
        /\ UNCHANGED <<trackFiles, sessionDir>>

\* the process ends inside handle_delete_request: before delete_info,
\* between delete_info and delete, or after delete and before the response
DeleteCrash(req, at) ==
    LET id == req.data[1]
        i == IF at = "info" THEN [files |-> infoFiles]
             ELSE Delete(infoFiles, id, FALSE)
        s == IF at \in {"info", "session"} THEN [files |-> sessionFiles]
             ELSE Delete(sessionFiles, id, FALSE)
    IN  /\ infoFiles' = i.files
        /\ sessionFiles' = s.files
        /\ unsynced' = {path \in unsynced :
                           \/ path[1] = "info" /\ path[2] \in DOMAIN i.files
                           \/ path[1] = "session" /\ path[2] \in DOMAIN s.files}
        /\ UNCHANGED <<trackFiles, sessionDir>>

\* the process of the storage ends while a request is handled: no response
\* is published and no module runs any more
StorageCrash ==
    /\ "storage" \in modules
    /\ inbox["storage"] # <<>>
    /\ LET req == Head(inbox["storage"])
       IN  CASE req.kind = "SaveSessionRequestEvent" ->
                    \E at \in SaveFailures : SaveCrash(req, Deref(req.data[1]), at)
             [] req.kind = "DeleteSessionRequestEvent" ->
                    \E at \in {"info", "session", "response"} : DeleteCrash(req, at)
    /\ modules' = {}
    /\ inbox' = [inbox EXCEPT !["storage"] = Tail(@)]
    /\ UNCHANGED <<busLog, envLeft>>
    /\ UNCHANGED detVars
    /\ UNCHANGED lapVars
    /\ UNCHANGED notMods

CrashInit ==
    /\ BusIdle
    /\ WaitIdle
    /\ SourceIdle /\ SaveIdle
    /\ LapIdle
    /\ modules = {"storage"}
    /\ inbox = [m \in ModuleNames |-> <<>>]
    /\ busLog = <<>>
    /\ returned = NotReturned
    /\ envLeft = [requests |-> MaxCrashRequests, detects |-> 0, fixes |-> 0,
                  feeds |-> 0, quits |-> 0]
    /\ \E f \in CrashFolders :
          /\ sessionDir = f.dir
          /\ sessionFiles = f.session
          /\ infoFiles = f.info
    /\ trackFiles = <<>>
    /\ unsynced = {}
    /\ detStarted = FALSE
    /\ detPosition = <<>>
    /\ detPending = <<>>
    /\ detTracks = <<>>
    /\ detHist = NoHist

CrashNext ==
    \/ \E kind \in {"SaveSessionRequestEvent", "DeleteSessionRequestEvent"} :
          \E data \in CrashRequestData(kind) : ClientRequest(kind, 30, 40, data)
    \/ StorageRun
    \/ StorageCrash

SpecCrash == CrashInit /\ [][CrashNext]_vars



----------------------------------------------------------------------------
(***************************************************************************)
(* The elapsed time source.  Time is counted in ticks; a read of the       *)
(* clock may find it advanced since the read before.                       *)
(***************************************************************************)
\* ElapsedTimeSource::elapsed_time
ElapsedTime(src) == IF src = <<>> THEN 0 ELSE src[1]

\* the source a ticks later
Advance(src, a) == IF src = <<>> THEN src ELSE <<src[1] + a>>

\* the ticks the clock advances before each of the three reads of one
\* evaluation: the same number before each
ClockReads == {[i \in 1..3 |-> a] : a \in 0..MaxDrift}

----------------------------------------------------------------------------
(***************************************************************************)
(* SimpleLaptimer.  Its operations take the timer's fields, lt, and give   *)
(* [lt, out, crossed, panic]: the fields afterwards, the events published, *)
(* whether the marker was found passed, whether the evaluation panicked.   *)
(***************************************************************************)
WindowCapacity == 4

DetectionRange == 25

Quiet(lt) == [lt |-> lt, out |-> <<>>, crossed |-> FALSE, panic |-> FALSE]

Panic(lt) == [lt |-> lt, out |-> <<>>, crossed |-> FALSE, panic |-> TRUE]

\* is_point_passed, were a position at the detection range itself in range
IsPointPassedInclusive(last_positions, pos) ==
    LET d(i) == CalculateDistanceSq(last_positions[i], pos)
        is_in_range ==
            \A i \in 1..Len(last_positions) : d(i) <= DetectionRange * DetectionRange
    IN  IF ~is_in_range THEN [passed |-> FALSE, panic |-> FALSE]
        ELSE IF Len(last_positions) < 4 THEN [passed |-> FALSE, panic |-> TRUE]
        ELSE [passed |-> d(1) > d(2) /\ d(3) < d(4) /\ d(2) # d(3), panic |-> FALSE]

\* is_point_passed: [passed, panic].  It indexes the distances of four
\* positions once all the positions held are in range
IsPointPassed(last_positions, pos) ==
    LET d(i) == CalculateDistanceSq(last_positions[i], pos)
        is_in_range ==
            \A i \in 1..Len(last_positions) : d(i) < DetectionRange * DetectionRange
    IN  IF ~is_in_range THEN [passed |-> FALSE, panic |-> FALSE]
        ELSE IF Len(last_positions) < 4 THEN [passed |-> FALSE, panic |-> TRUE]
        ELSE [passed |-> d(1) > d(2) /\ d(3) < d(4) /\ d(2) # d(3), panic |-> FALSE]

\* handle_sector_finsihed: the clock is read for the duration, a1 ticks after
\* the last read, and again for the start of the next sector, a2 ticks later
\* handle_sector_finsihed without the publication
HandleSectorFinsihedSilent(lt, a1, a2) ==
    LET src2 == Advance(Advance(lt.elapsed_time_source, a1), a2)
    IN  [lt |-> [lt EXCEPT !.elapsed_time_source = src2,
                           !.sector_start = ElapsedTime(src2)],
         out |-> <<>>]

\* handle_sector_finsihed
HandleSectorFinsihed(lt, a1, a2) ==
    LET src1 == Advance(lt.elapsed_time_source, a1)
        duration == ElapsedTime(src1) - lt.sector_start
        src2 == Advance(src1, a2)
    IN  [lt |-> [lt EXCEPT !.elapsed_time_source = src2,
                           !.sector_start = ElapsedTime(src2)],
         out |-> <<Plain("SectorFinshedEvent", <<duration>>)>>]

\* calculate_laptimer_state, the start of the next lap after a finished one
\* the start of the next lap without the reset of the sector index
StartNextLapKeepSector(lt) ==
    [lt EXCEPT !.sector_start = 0, !.elapsed_time_source = <<0>>,
               !.state = "IteratingTrackPoints"]

\* the start of the next lap
StartNextLap(lt) ==
    [lt EXCEPT !.sector = 0, !.sector_start = 0, !.elapsed_time_source = <<0>>,
               !.state = "IteratingTrackPoints"]

\* finish_point, were the start line the finish of every track
FinishPointStartline(track) == track.startline

\* finish_point of calculate_laptimer_state: track.finishline.map_or(
\* track.startline, ...)
FinishPoint(track) ==
    IF track.finishline = <<>> THEN track.startline ELSE track.finishline[1]

\* calculate_laptimer_state
CalculateLaptimerState(lt, reads) ==
    IF lt.track = <<>> THEN Quiet(lt)
    ELSE
    LET track == lt.track[1]
    IN  IF lt.state = "WaitingForFirstStart"
        THEN LET p == IsPointPassed(lt.last_positions, track.startline)
             IN  IF p.panic THEN Panic(lt)
                 ELSE IF ~p.passed THEN Quiet(lt)
                 ELSE [lt |-> [lt EXCEPT !.elapsed_time_source = <<0>>,
                                         !.state = "IteratingTrackPoints",
                                         !.sector_start = 0],
                       out |-> <<Plain("LapStartedEvent", <<>>)>>,
                       crossed |-> TRUE, panic |-> FALSE]
        ELSE IF lt.state = "IteratingTrackPoints"
        THEN IF lt.sector >= Len(track.sectors) THEN Panic(lt)
             ELSE LET p == IsPointPassed(lt.last_positions, track.sectors[lt.sector + 1])
                      lt1 == [lt EXCEPT
                                 !.sector = @ + 1,
                                 !.state = IF lt.sector + 1 >= Len(track.sectors)
                                           THEN "WaitingForFinish" ELSE @]
                      h == HandleSectorFinsihed(lt1, reads[1], reads[2])
                  IN  IF p.panic THEN Panic(lt)
                      ELSE IF ~p.passed THEN Quiet(lt)
                      ELSE [lt |-> h.lt, out |-> h.out, crossed |-> TRUE,
                            panic |-> FALSE]
        ELSE LET finish_point == FinishPoint(track)
                 p == IsPointPassed(lt.last_positions, finish_point)
                 h == HandleSectorFinsihed(lt, reads[1], reads[2])
                 src3 == Advance(h.lt.elapsed_time_source, reads[3])
                 lt3 == [h.lt EXCEPT !.elapsed_time_source = src3]
                 finished == Plain("LapFinishedEvent", <<ElapsedTime(src3)>>)
             IN  IF p.panic THEN Panic(lt)
                 ELSE IF ~p.passed THEN Quiet(lt)
                 ELSE IF track.sectors # <<>>
                 THEN [lt |-> StartNextLap(lt3),
                       out |-> h.out \o <<finished, Plain("LapStartedEvent", <<>>)>>,
                       crossed |-> TRUE, panic |-> FALSE]
                 ELSE [lt |-> lt3, out |-> h.out \o <<finished>>,
                       crossed |-> TRUE, panic |-> FALSE]

\* update_position, were the newest fix evicted from a full window
UpdatePositionEvictNewest(lt, pos, reads) ==
    LET kept == IF Len(lt.last_positions) = WindowCapacity
                THEN SubSeq(lt.last_positions, 2, Len(lt.last_positions))
                ELSE lt.last_positions
        lt1 == [lt EXCEPT !.last_positions = <<pos>> \o kept]
    IN  IF Len(lt1.last_positions) < 4 THEN Quiet(lt1)
        ELSE IF lt1.track # <<>> THEN CalculateLaptimerState(lt1, reads)
        ELSE Quiet(lt1)

\* update_position
UpdatePosition(lt, pos, reads) ==
    LET kept == IF Len(lt.last_positions) = WindowCapacity
                THEN SubSeq(lt.last_positions, 1, Len(lt.last_positions) - 1)
                ELSE lt.last_positions
        lt1 == [lt EXCEPT !.last_positions = <<pos>> \o kept]
    IN  IF Len(lt1.last_positions) < 4 THEN Quiet(lt1)
        ELSE IF lt1.track # <<>> THEN CalculateLaptimerState(lt1, reads)
        ELSE Quiet(lt1)

\* the DetectTrackResponse arm, were the track assigned and not evaluated
TrackResponseAssignOnly(lt, track, reads) ==
    IF track.data # <<>> /\ track.id = 10 /\ track.addr = 22
    THEN Quiet([lt EXCEPT !.track = <<track.data[1]>>])
    ELSE Quiet(lt)

\* the DetectTrackResponse arm, were the receiver address not compared
TrackResponseAnyAddr(lt, track, reads) ==
    IF track.data # <<>> /\ track.id = 10
    THEN CalculateLaptimerState([lt EXCEPT !.track = <<track.data[1]>>], reads)
    ELSE Quiet(lt)

\* the DetectTrackResponse arm of SimpleLaptimer::run: the track of a
\* response to the timer's request is assigned and the state evaluated
TrackResponse(lt, track, reads) ==
    IF track.data # <<>> /\ track.id = 10 /\ track.addr = 22
    THEN CalculateLaptimerState([lt EXCEPT !.track = <<track.data[1]>>], reads)
    ELSE Quiet(lt)

RECURSIVE FoldOut(_, _)
\* the history after the timing events out: a LapStarted clears the sum, a
\* SectorFinished adds to it, a LapFinished is recorded with the sum
FoldOut(hist, out) ==
    IF out = <<>> THEN hist
    ELSE LET e == Head(out)
             h == CASE e.kind = "LapStartedEvent" ->
                          [hist EXCEPT !.sum = 0,
                                       !.phase = IF @ \in {"before", "between"}
                                                 THEN "lap" ELSE "broken"]
                    [] e.kind = "SectorFinshedEvent" ->
                          [hist EXCEPT !.sum = @ + e.data[1],
                                       !.phase = IF @ = "lap" THEN "lap" ELSE "broken"]
                    [] e.kind = "LapFinishedEvent" ->
                          [hist EXCEPT !.lap = <<[time |-> e.data[1], sum |-> hist.sum]>>,
                                       !.laps = @ + 1,
                                       !.phase = IF @ = "lap" THEN "between"
                                                 ELSE "broken"]
         IN  FoldOut(h, Tail(out))

\* SimpleLaptimer::run up to its loop: the request for the track
LaptimerStart ==
    /\ "laptimer" \in modules
    /\ ~laptimer.running
    /\ laptimer' = [laptimer EXCEPT !.running = TRUE]
    /\ PublishSeq("env", <<Ev("DetectTrackRequestEvent", 10, 22, <<>>)>>)
    /\ UNCHANGED <<modules, envLeft, activeSession, gnss, lapHist>>
    /\ UNCHANGED storeVars
    /\ UNCHANGED detVars
    /\ UNCHANGED notMods

\* one turn of the loop of SimpleLaptimer::run; a panic of the timer unwinds
\* the task that runs every module
LaptimerRun ==
    /\ "laptimer" \in modules
    /\ laptimer.running
    /\ returned["laptimer"] = "no"
    /\ inbox["laptimer"] # <<>>
    /\ Head(inbox["laptimer"]).kind # "QuitEvent"
    /\ \E reads \in ClockReads :
          LET e == Head(inbox["laptimer"])
              r == CASE e.kind = "GnssPositionEvent" ->
                          UpdatePosition(laptimer, e.data[1], reads)
                     [] e.kind = "DetectTrackResponseEvent" ->
                          TrackResponse(laptimer, e, reads)
          IN  /\ laptimer' = r.lt
              /\ modules' = IF r.panic THEN {} ELSE modules
              /\ PublishSeq("laptimer", r.out)
              /\ lapHist' = FoldOut([lapHist EXCEPT !.pre = laptimer.state,
                                                    !.crossed = r.crossed,
                                                    !.out = r.out,
                                                    !.panicked = r.panic],
                                    r.out)
    /\ UNCHANGED <<envLeft, activeSession, gnss>>
    /\ UNCHANGED storeVars
    /\ UNCHANGED detVars
    /\ UNCHANGED notMods

----------------------------------------------------------------------------
(***************************************************************************)
(* ActiveSession.  Its handlers take the builder's fields, as, and give    *)
(* [as, out].                                                              *)
(***************************************************************************)
\* Lap::default
EmptyLap == [sectors |-> <<>>, log_points |-> <<>>]

\* on_track_detected
OnTrackDetected(as, response) ==
    IF response.id # 10 \/ response.addr # 100 THEN [as |-> as, out |-> <<>>]
    ELSE IF response.data = <<>> THEN [as |-> as, out |-> <<>>]
    ELSE [as |-> [as EXCEPT !.session = <<Session(2, response.data[1], <<>>)>>],
          out |-> <<>>]

\* on_lap_started
OnLapStarted(as) == [as |-> [as EXCEPT !.active_lap = <<EmptyLap>>], out |-> <<>>]

\* on_sector_finished, were a sector time pushed also when no lap is active
OnSectorFinishedAnyway(as, duration) ==
    [as |-> [as EXCEPT !.active_lap =
                 IF @ = <<>> THEN <<[EmptyLap EXCEPT !.sectors = <<duration>>]>>
                 ELSE <<[@[1] EXCEPT !.sectors = Append(@, duration)]>>],
     out |-> <<>>]

\* on_sector_finished
OnSectorFinished(as, duration) ==
    IF as.active_lap = <<>> THEN [as |-> as, out |-> <<>>]
    ELSE [as |-> [as EXCEPT !.active_lap[1].sectors = Append(@, duration)],
          out |-> <<>>]

\* on_lap_finished, were the lap put before the laps of the session
OnLapFinishedFirst(as, duration) ==
    IF as.session = <<>> THEN [as |-> as, out |-> <<>>]
    ELSE [as |-> IF as.active_lap = <<>> THEN as
                 ELSE [as EXCEPT !.session[1].laps = <<as.active_lap[1]>> \o @,
                                 !.active_lap = <<>>],
          out |-> <<Ev("SaveSessionRequestEvent", 30, 40, <<ActiveRef>>)>>]

\* on_lap_finished, were a save asked for only for the first lap
OnLapFinishedOnce(as, duration) ==
    IF as.session = <<>> THEN [as |-> as, out |-> <<>>]
    ELSE [as |-> IF as.active_lap = <<>> THEN as
                 ELSE [as EXCEPT !.session[1].laps = Append(@, as.active_lap[1]),
                                 !.active_lap = <<>>],
          out |-> IF as.session[1].laps = <<>>
                  THEN <<Ev("SaveSessionRequestEvent", 30, 40, <<ActiveRef>>)>>
                  ELSE <<>>]

\* on_lap_finished, were a save asked for also when no session is open
OnLapFinishedAlways(as, duration) ==
    [as |-> IF as.session = <<>> \/ as.active_lap = <<>> THEN as
            ELSE [as EXCEPT !.session[1].laps = Append(@, as.active_lap[1]),
                            !.active_lap = <<>>],
     out |-> <<Ev("SaveSessionRequestEvent", 30, 40, <<ActiveRef>>)>>]

\* on_lap_finished: the request carries the pointer to the session
OnLapFinished(as, duration) ==
    IF as.session = <<>> THEN [as |-> as, out |-> <<>>]
    ELSE [as |-> IF as.active_lap = <<>> THEN as
                 ELSE [as EXCEPT !.session[1].laps = Append(@, as.active_lap[1]),
                                 !.active_lap = <<>>],
          out |-> <<Ev("SaveSessionRequestEvent", 30, 40, <<ActiveRef>>)>>]

\* on_gnss_position
OnGnssPosition(as, gnss_pos) ==
    IF as.active_lap = <<>> THEN [as |-> as, out |-> <<>>]
    ELSE [as |-> [as EXCEPT !.active_lap[1].log_points = Append(@, gnss_pos)],
          out |-> <<>>]

\* the history after the builder took the event e and its handler gave r
Seen(hist, as, e, r) ==
    [hist EXCEPT
       !.seen = CASE e.kind = "LapStartedEvent" ->
                       [sectors |-> <<>>, log_points |-> <<>>]
                  [] e.kind = "SectorFinshedEvent" ->
                       [@ EXCEPT !.sectors = Append(@, e.data[1])]
                  [] e.kind = "GnssPositionEvent" ->
                       [@ EXCEPT !.log_points = Append(@, e.data[1])]
                  [] OTHER -> @,
       !.finish = IF e.kind = "LapFinishedEvent"
                  THEN <<[before |-> as, seen |-> hist.seen, after |-> r.as,
                          out |-> r.out]>>
                  ELSE @]

\* ActiveSession::run up to its loop: the request for the track, then a new
\* receiver, which holds nothing of what was published before
ActiveSessionStart ==
    /\ "session" \in modules
    /\ ~activeSession.running
    /\ activeSession' = [activeSession EXCEPT !.running = TRUE]
    /\ LET request == Ev("DetectTrackRequestEvent", 10, 100, <<>>)
       IN  /\ inbox' = [x \in DOMAIN inbox |->
                          IF x = "session" THEN <<>>
                          ELSE IF x \in modules /\ request.kind \in Handled(x)
                          THEN Append(inbox[x], request)
                          ELSE inbox[x]]
           /\ busLog' = Append(busLog, request)
    /\ UNCHANGED <<modules, envLeft, laptimer, gnss, lapHist>>
    /\ UNCHANGED storeVars
    /\ UNCHANGED detVars
    /\ UNCHANGED notMods

\* one turn of the loop of ActiveSession::run
ActiveSessionRun ==
    /\ "session" \in modules
    /\ activeSession.running
    /\ returned["session"] = "no"
    /\ inbox["session"] # <<>>
    /\ Head(inbox["session"]).kind # "QuitEvent"
    /\ LET e == Head(inbox["session"])
           r == CASE e.kind = "DetectTrackResponseEvent" ->
                       OnTrackDetected(activeSession, e)
                  [] e.kind = "LapStartedEvent" -> OnLapStarted(activeSession)
                  [] e.kind = "SectorFinshedEvent" ->
                       OnSectorFinished(activeSession, e.data[1])
                  [] e.kind = "LapFinishedEvent" ->
                       OnLapFinished(activeSession, e.data[1])
                  [] e.kind = "GnssPositionEvent" ->
                       OnGnssPosition(activeSession, e.data[1])
       IN  /\ activeSession' = r.as
           /\ PublishSeq("session", r.out)
           /\ lapHist' = Seen(lapHist, activeSession, e, r)
    /\ UNCHANGED <<modules, envLeft, laptimer, gnss>>
    /\ UNCHANGED storeVars
    /\ UNCHANGED detVars
    /\ UNCHANGED notMods

----------------------------------------------------------------------------
(***************************************************************************)
(* The pipeline of rapid_headless.                                         *)
(***************************************************************************)
\* the GNSS source sends the next fix of its route, once the modules have
\* taken what was sent before; a tick of the clock passes with it
GnssDrive ==
    /\ modules # {}
    /\ gnss.next <= Len(gnss.route)
    /\ \A m \in modules : Len(inbox[m]) <= MaxBacklog
    /\ gnss' = [gnss EXCEPT !.next = @ + 1]
    /\ laptimer' = [laptimer EXCEPT !.elapsed_time_source = Advance(@, 1)]
    /\ PublishSeq("env", <<Plain("GnssPositionEvent", <<Pos(0, gnss.route[gnss.next])>>)>>)
    /\ UNCHANGED <<modules, envLeft, activeSession, lapHist>>
    /\ UNCHANGED storeVars
    /\ UNCHANGED detVars
    /\ UNCHANGED notMods

\* main: every module is constructed on the bus, nothing is stored but the
\* tracks, and the car is at the first or the second fix of its route
LapInit ==
    /\ BusIdle
    /\ WaitIdle
    /\ SourceIdle /\ SaveIdle
    /\ modules = {"storage", "detector", "laptimer", "session"}
    /\ inbox = [m \in ModuleNames |-> <<>>]
    /\ busLog = <<>>
    /\ returned = NotReturned
    /\ envLeft = [requests |-> 0, detects |-> 0, fixes |-> 0, feeds |-> 0,
                  quits |-> 0]
    /\ sessionFiles = EmptyFolder
    /\ infoFiles = EmptyFolder
    /\ trackFiles = <<TrackWest, TrackEast, TrackFlat>>
    /\ sessionDir = TRUE
    /\ unsynced = {}
    /\ detStarted = FALSE
    /\ detPosition = <<>>
    /\ detPending = <<>>
    /\ detTracks = <<>>
    /\ detHist = NoHist
    /\ laptimer = LaptimerNew
    /\ activeSession = ActiveSessionNew
    /\ gnss \in {[route |-> r, next |-> n] : r \in Routes, n \in 1..2}
    /\ lapHist = NoLapHist

LapNext ==
    \/ GnssDrive
    \/ StorageRun
    \/ TrackDetectionStart
    \/ TrackDetectionRun
    \/ LaptimerStart
    \/ LaptimerRun
    \/ ActiveSessionStart
    \/ ActiveSessionRun

SpecLap == LapInit /\ [][LapNext]_vars

----------------------------------------------------------------------------
(***************************************************************************)
(* The session builder alone on the bus: what the detector, the lap timer  *)
(* and the GNSS source may publish reaches it in any order.                *)
(***************************************************************************)
FeedEvents ==
    {Plain("LapStartedEvent", <<>>), Plain("LapFinishedEvent", <<7>>),
     Plain("GnssPositionEvent", <<Pos(0, 0)>>)}
    \cup {Plain("SectorFinshedEvent", <<d>>) : d \in {3, 4}}
    \cup {Ev("DetectTrackResponseEvent", 10, 100, <<TrackWest>>),
          Ev("DetectTrackResponseEvent", 10, 100, <<>>),
          Ev("DetectTrackResponseEvent", 10, 22, <<TrackWest>>)}

\* another module publishes an event, once the builder has taken the last
SessionFeed ==
    /\ envLeft.feeds > 0
    /\ \A m \in modules : Len(inbox[m]) <= MaxBacklog
    /\ envLeft' = [envLeft EXCEPT !.feeds = @ - 1]
    /\ \E e \in FeedEvents : PublishSeq("env", <<e>>)
    /\ UNCHANGED modules
    /\ UNCHANGED lapVars
    /\ UNCHANGED storeVars
    /\ UNCHANGED detVars
    /\ UNCHANGED notMods

SessionInit ==
    /\ BusIdle
    /\ WaitIdle
    /\ SourceIdle /\ SaveIdle
    /\ LapIdle
    /\ modules = {"session"}
    /\ inbox = [m \in ModuleNames |-> <<>>]
    /\ busLog = <<>>
    /\ returned = NotReturned
    /\ envLeft = [requests |-> 0, detects |-> 0, fixes |-> 0, feeds |-> MaxFeeds,
                  quits |-> 0]
    /\ sessionFiles = EmptyFolder
    /\ infoFiles = EmptyFolder
    /\ trackFiles = <<>>
    /\ sessionDir = TRUE
    /\ unsynced = {}
    /\ detStarted = FALSE
    /\ detPosition = <<>>
    /\ detPending = <<>>
    /\ detTracks = <<>>
    /\ detHist = NoHist

SessionNext ==
    \/ SessionFeed
    \/ ActiveSessionStart
    \/ ActiveSessionRun

SpecSession == SessionInit /\ [][SessionNext]_vars

----------------------------------------------------------------------------
(***************************************************************************)
(* A save in its two parts.  save serializes the session and its info      *)
(* while it holds the read lock, then writes the files; every file         *)
(* operation awaits, and tokio::join! lets the session builder run its     *)
(* handlers meanwhile.  The request stays at the head of the inbox until   *)
(* the response is published.                                              *)
(***************************************************************************)
\* what the session builder is sent, in this order: a track, a lap with one
\* sector, a second lap, and a LapFinished with no lap begun
SaveScript ==
    <<Ev("DetectTrackResponseEvent", 10, 100, <<TrackWest>>),
      Plain("LapStartedEvent", <<>>),
      Plain("SectorFinshedEvent", <<3>>),
      Plain("LapFinishedEvent", <<7>>),
      Plain("LapStartedEvent", <<>>),
      Plain("LapFinishedEvent", <<8>>),
      Plain("LapFinishedEvent", <<9>>)>>

\* the block of save that holds the read lock on the session
SaveSerialize(req, session) ==
    [req |-> req, id |-> GetId(session), json_session |-> ToJson(session),
     json_session_info |-> SessionInfoOf(session)]

\* the file writes of save, were the info serialized when its file is
\* written, from the session as it is by then
SaveFilesInfoLate(sv, failed) ==
    LET step(file) == IF ~sessionDir THEN "create"
                      ELSE IF failed.file = file THEN failed.step ELSE "none"
        s == SaveBytes(sessionFiles, unsynced, <<"session", sv.id>>,
                       sv.json_session, step("session"))
        i == IF s.ok
             THEN SaveBytes(infoFiles, s.unsynced, <<"info", sv.id>>,
                            SessionInfoOf(Deref(sv.req.data[1])), step("info"))
             ELSE [files |-> infoFiles, unsynced |-> s.unsynced, ok |-> FALSE]
    IN  /\ sessionFiles' = s.files
        /\ infoFiles' = i.files
        /\ unsynced' = i.unsynced
        /\ PublishSeq("storage",
              <<Response("SaveSessionResponseEvent", sv.req,
                         <<IF i.ok THEN Ok(sv.id)
                           ELSE IF ~sessionDir THEN Err("NotFound")
                           ELSE Err("IoError")>>)>>)
        /\ UNCHANGED <<trackFiles, sessionDir>>

\* the file writes of save and the response of handle_save_request:
\* <id>.session, then, if that went well, <id>.info, both with the bytes
\* serialized under the lock
SaveFiles(sv, failed) ==
    LET step(file) == IF ~sessionDir THEN "create"
                      ELSE IF failed.file = file THEN failed.step ELSE "none"
        s == SaveBytes(sessionFiles, unsynced, <<"session", sv.id>>,
                       sv.json_session, step("session"))
        i == IF s.ok
             THEN SaveBytes(infoFiles, s.unsynced, <<"info", sv.id>>,
                            sv.json_session_info, step("info"))
             ELSE [files |-> infoFiles, unsynced |-> s.unsynced, ok |-> FALSE]
    IN  /\ sessionFiles' = s.files
        /\ infoFiles' = i.files
        /\ unsynced' = i.unsynced
        /\ PublishSeq("storage",
              <<Response("SaveSessionResponseEvent", sv.req,
                         <<IF i.ok THEN Ok(sv.id)
                           ELSE IF ~sessionDir THEN Err("NotFound")
                           ELSE Err("IoError")>>)>>)
        /\ UNCHANGED <<trackFiles, sessionDir>>

\* the storage takes a save request and serializes under the lock
SaveBegin ==
    /\ "storage" \in modules
    /\ AllStarted
    /\ saving = <<>>
    /\ inbox["storage"] # <<>>
    /\ Head(inbox["storage"]).kind = "SaveSessionRequestEvent"
    /\ LET req == Head(inbox["storage"])
       IN  saving' = <<SaveSerialize(req, Deref(req.data[1]))>>
    /\ UNCHANGED <<modVars, returned, busVars, idVars, waitVars, srcVars>>
    /\ UNCHANGED storeVars
    /\ UNCHANGED detVars
    /\ UNCHANGED lapVars

\* the files are written and the response is published
SaveEnd ==
    /\ saving # <<>>
    /\ \E failed \in SaveFailures : SaveFiles(saving[1], failed)
    /\ saving' = <<>>
    /\ UNCHANGED <<modules, envLeft, returned, busVars, idVars, waitVars, srcVars>>
    /\ UNCHANGED detVars
    /\ UNCHANGED lapVars

\* the lap timer publishes the next event of the script, once the builder
\* has taken the last
SaveFeed ==
    /\ envLeft.feeds > 0
    /\ activeSession.running
    /\ inbox["session"] = <<>>
    /\ envLeft' = [envLeft EXCEPT !.feeds = @ - 1]
    /\ PublishSeq("env", <<SaveScript[Len(SaveScript) - envLeft.feeds + 1]>>)
    /\ UNCHANGED modules
    /\ UNCHANGED lapVars
    /\ UNCHANGED storeVars
    /\ UNCHANGED detVars
    /\ UNCHANGED notMods

SaveInit ==
    /\ BusIdle
    /\ WaitIdle
    /\ SourceIdle /\ SaveIdle
    /\ LapIdle
    /\ modules = {"session", "storage"}
    /\ inbox = [m \in ModuleNames |-> <<>>]
    /\ busLog = <<>>
    /\ returned = NotReturned
    /\ envLeft = [requests |-> 0, detects |-> 0, fixes |-> 0,
                  feeds |-> Len(SaveScript), quits |-> 0]
    /\ sessionFiles = EmptyFolder
    /\ infoFiles = EmptyFolder
    /\ trackFiles = <<>>
    /\ sessionDir = TRUE
    /\ unsynced = {}
    /\ detStarted = FALSE
    /\ detPosition = <<>>
    /\ detPending = <<>>
    /\ detTracks = <<>>
    /\ detHist = NoHist

SaveNext ==
    \/ SaveFeed
    \/ ActiveSessionStart
    \/ ActiveSessionRun
    \/ SaveBegin
    \/ SaveEnd

SpecSave == SaveInit /\ [][SaveNext]_vars

----------------------------------------------------------------------------
(***************************************************************************)
(* The lap timer and the session builder on the bus, without the detector: *)
(* the GNSS source drives a route, and DetectTrackResponses of any id and  *)
(* address are published at any moment of it.                              *)
(***************************************************************************)
MaxTimerFeeds == 3   \* SpecTimer: responses sent to the two modules

\* the routes driven: four fixes that cross the start line of TrackWest, from
\* 20 m before it to 15 m behind it, and a fix 60 m from it, out of range,
\* after them or before them
TimerRoutes == {<<-20, -10, 5, 15, 60>>, <<60, -20, -10, 5, 15>>}

\* the responses sent: to the request of the lap timer (10, 22) and to that
\* of the session builder (10, 100), with a track and without, and with
\* another id
TimerResponses ==
    {Ev("DetectTrackResponseEvent", 10, 22, <<TrackWest>>),
     Ev("DetectTrackResponseEvent", 10, 22, <<>>),
     Ev("DetectTrackResponseEvent", 10, 100, <<TrackWest>>),
     Ev("DetectTrackResponseEvent", 10, 100, <<>>),
     Ev("DetectTrackResponseEvent", 11, 22, <<TrackWest>>),
     Ev("DetectTrackResponseEvent", 11, 100, <<TrackWest>>)}

\* a response is published, once the modules have taken what was sent
TimerFeed ==
    /\ envLeft.feeds > 0
    /\ \A m \in modules : Len(inbox[m]) <= MaxBacklog
    /\ envLeft' = [envLeft EXCEPT !.feeds = @ - 1]
    /\ \E e \in TimerResponses : PublishSeq("env", <<e>>)
    /\ UNCHANGED modules
    /\ UNCHANGED lapVars
    /\ UNCHANGED storeVars
    /\ UNCHANGED detVars
    /\ UNCHANGED notMods

TimerInit ==
    /\ BusIdle
    /\ WaitIdle
    /\ SourceIdle /\ SaveIdle
    /\ laptimer = LaptimerNew
    /\ activeSession = ActiveSessionNew
    /\ gnss \in {[route |-> r, next |-> 1] : r \in TimerRoutes}
    /\ lapHist = NoLapHist
    /\ modules = {"laptimer", "session"}
    /\ inbox = [m \in ModuleNames |-> <<>>]
    /\ busLog = <<>>
    /\ returned = NotReturned
    /\ envLeft = [requests |-> 0, detects |-> 0, fixes |-> 0, feeds |-> MaxTimerFeeds,
                  quits |-> 0]
    /\ sessionFiles = EmptyFolder
    /\ infoFiles = EmptyFolder
    /\ trackFiles = <<>>
    /\ sessionDir = TRUE
    /\ unsynced = {}
    /\ detStarted = FALSE
    /\ detPosition = <<>>
    /\ detPending = <<>>
    /\ detTracks = <<>>
    /\ detHist = NoHist

TimerNext ==
    \/ GnssDrive
    \/ TimerFeed
    \/ LaptimerStart
    \/ LaptimerRun
    \/ ActiveSessionStart
    \/ ActiveSessionRun

SpecTimer == TimerInit /\ [][TimerNext]_vars

----------------------------------------------------------------------------
(***************************************************************************)
(* Shutdown.  The five modules of rapid_headless are constructed on the    *)
(* bus; the GNSS adapter has spawned its position task, which reports      *)
(* fixes until the adapter aborts it; a Quit event is published at any     *)
(* moment.                                                                 *)
(***************************************************************************)
MaxQuitFixes == 1   \* SpecQuit: fixes the position task reports

\* the fixes reported: on the start line of TrackWest, and 60 m from it
QuitFixes == {Pos(0, 0), Pos(0, 60)}

\* run() of module m has reached its loop
Started(m) ==
    CASE m = "storage" -> AllStarted
      [] m = "detector" -> detStarted
      [] m = "laptimer" -> laptimer.running
      [] m = "session" -> activeSession.running
      [] m = "gnss" -> TRUE

\* the arm `EventKind::QuitEvent => run = false` of the loop of run(), for
\* each module: the loop ends and run() returns Ok(())
RunQuit(m) ==
    /\ m \in modules
    /\ Started(m)
    /\ returned[m] = "no"
    /\ inbox[m] # <<>>
    /\ Head(inbox[m]).kind = "QuitEvent"
    /\ returned' = [returned EXCEPT ![m] = "Ok"]
    /\ inbox' = [inbox EXCEPT ![m] = Tail(@)]
    /\ UNCHANGED <<modules, busLog, envLeft>>
    /\ UNCHANGED <<busVars, idVars, waitVars, srcVars, saveVars, storeVars, detVars, lapVars>>

\* test_helper::stop_module: a Quit event is published
QuitPublish ==
    /\ envLeft.quits > 0
    /\ envLeft' = [envLeft EXCEPT !.quits = @ - 1]
    /\ PublishSeq("env", <<Plain("QuitEvent", <<>>)>>)
    /\ UNCHANGED modules
    /\ UNCHANGED storeVars
    /\ UNCHANGED detVars
    /\ UNCHANGED lapVars
    /\ UNCHANGED notMods

\* constant_gnss_position_task: a tick of the position task, which the
\* adapter aborts when it takes the Quit
QuitGnssTick(fix) ==
    /\ "gnss" \in modules
    /\ returned["gnss"] = "no"
    /\ GnssPosition(fix)

QuitInit ==
    /\ BusIdle
    /\ WaitIdle
    /\ SourceIdle /\ SaveIdle
    /\ LapIdle
    /\ modules = ModuleNames
    /\ inbox = [m \in ModuleNames |-> <<>>]
    /\ busLog = <<>>
    /\ returned = NotReturned
    /\ envLeft = [requests |-> 0, detects |-> 0, fixes |-> MaxQuitFixes, feeds |-> 0,
                  quits |-> 1]
    /\ sessionFiles = EmptyFolder
    /\ infoFiles = EmptyFolder
    /\ trackFiles \in {<<>>, <<TrackWest>>}
    /\ sessionDir = TRUE
    /\ unsynced = {}
    /\ detStarted = FALSE
    /\ detPosition = <<>>
    /\ detPending = <<>>
    /\ detTracks = <<>>
    /\ detHist = NoHist

QuitNext ==
    \/ QuitPublish
    \/ \E fix \in QuitFixes : QuitGnssTick(fix)
    \/ StorageRun
    \/ TrackDetectionStart
    \/ TrackDetectionRun
    \/ LaptimerStart
    \/ LaptimerRun
    \/ ActiveSessionStart
    \/ ActiveSessionRun
    \/ \E m \in ModuleNames : RunQuit(m)

\* the runtime polls every run() whose receiver holds an event
QuitFairness ==
    /\ WF_vars(StorageRun)
    /\ WF_vars(TrackDetectionStart)
    /\ WF_vars(TrackDetectionRun)
    /\ WF_vars(LaptimerStart)
    /\ WF_vars(LaptimerRun)
    /\ WF_vars(ActiveSessionStart)
    /\ WF_vars(ActiveSessionRun)
    /\ \A m \in ModuleNames : WF_vars(RunQuit(m))

SpecQuit == QuitInit /\ [][QuitNext]_vars /\ QuitFairness

----------------------------------------------------------------------------
(***************************************************************************)
(* The crossing test.  The lap timer waits for its first start on a track  *)
(* whose start line is at the origin; it holds three fixes and receives a  *)
(* fourth, each on the line through the marker, before or behind it.       *)
(***************************************************************************)
CrossOffsets == {-30, -25, -24, -10, -5, 5, 10, 24, 25, 30}

CrossFixes == {Pos(0, x) : x \in CrossOffsets}

CrossTrack == Track("Line", Pos(0, 0), <<>>, <<Pos(0, 1000)>>)

CrossInit ==
    /\ BusIdle
    /\ WaitIdle
    /\ SourceIdle /\ SaveIdle
    /\ modules = {"laptimer"}
    /\ \E p \in CrossFixes :
          inbox = [m \in ModuleNames |->
                     IF m = "laptimer" THEN <<Plain("GnssPositionEvent", <<p>>)>>
                     ELSE <<>>]
    /\ busLog = <<>>
    /\ returned = NotReturned
    /\ envLeft = [requests |-> 0, detects |-> 0, fixes |-> 0, feeds |-> 0,
                  quits |-> 0]
    /\ sessionFiles = EmptyFolder
    /\ infoFiles = EmptyFolder
    /\ trackFiles = <<>>
    /\ sessionDir = TRUE
    /\ unsynced = {}
    /\ detStarted = FALSE
    /\ detPosition = <<>>
    /\ detPending = <<>>
    /\ detTracks = <<>>
    /\ detHist = NoHist
    /\ \E held \in [1..3 -> CrossFixes] :
          laptimer = [LaptimerNew EXCEPT !.running = TRUE,
                                         !.track = <<CrossTrack>>,
                                         !.last_positions = held]
    /\ activeSession = ActiveSessionNew
    /\ gnss = [route |-> <<>>, next |-> 1]
    /\ lapHist = NoLapHist

SpecCross == CrossInit /\ [][LaptimerRun]_vars

----------------------------------------------------------------------------
(***************************************************************************)
(* One pass of a marker.  The start line of the track, its one sector      *)
(* marker and so its finish are the same point: whatever its state, the    *)
(* lap timer tests this point on every window.  The car comes from out of  *)
(* range and passes the point once.                                        *)
(***************************************************************************)
PassTrack == Track("Loop", Pos(0, 0), <<>>, <<Pos(0, 0)>>)

\* fixes on a line through the point, in the order driven: their distances
\* 20, 10, 3, 5, 15 and 22 m fall to one minimum and rise again
PassLine == <<-20, -10, -3, 5, 15, 22>>

MinPassFixes == 4   \* SpecPass: the fewest fixes of a pass

\* the fixes of PassLine with the indices S, in their order
PassPick(S) ==
    LET n == Cardinality(S)
        nth(i) == CHOOSE k \in S : Cardinality({j \in S : j < k}) = i - 1
    IN  [i \in 1..n |-> PassLine[nth(i)]]

\* the routes: a fix out of range, then four or more of the fixes of the pass
PassRoutes ==
    {<<60>> \o PassPick(S) :
        S \in {T \in SUBSET (1..Len(PassLine)) : Cardinality(T) >= MinPassFixes}}

\* the detector answers the request of the lap timer
PassFeed ==
    /\ envLeft.feeds > 0
    /\ laptimer.running
    /\ \A m \in modules : Len(inbox[m]) <= MaxBacklog
    /\ envLeft' = [envLeft EXCEPT !.feeds = @ - 1]
    /\ PublishSeq("env", <<Ev("DetectTrackResponseEvent", 10, 22, <<PassTrack>>)>>)
    /\ UNCHANGED modules
    /\ UNCHANGED lapVars
    /\ UNCHANGED storeVars
    /\ UNCHANGED detVars
    /\ UNCHANGED notMods

PassInit ==
    /\ BusIdle
    /\ WaitIdle
    /\ SourceIdle /\ SaveIdle
    /\ laptimer = LaptimerNew
    /\ activeSession = ActiveSessionNew
    /\ gnss \in {[route |-> r, next |-> 1] : r \in PassRoutes}
    /\ lapHist = NoLapHist
    /\ modules = {"laptimer"}
    /\ inbox = [m \in ModuleNames |-> <<>>]
    /\ busLog = <<>>
    /\ returned = NotReturned
    /\ envLeft = [requests |-> 0, detects |-> 0, fixes |-> 0, feeds |-> 1,
                  quits |-> 0]
    /\ sessionFiles = EmptyFolder
    /\ infoFiles = EmptyFolder
    /\ trackFiles = <<>>
    /\ sessionDir = TRUE
    /\ unsynced = {}
    /\ detStarted = FALSE
    /\ detPosition = <<>>
    /\ detPending = <<>>
    /\ detTracks = <<>>
    /\ detHist = NoHist

PassNext ==
    \/ GnssDrive
    \/ PassFeed
    \/ LaptimerStart
    \/ LaptimerRun

SpecPass == PassInit /\ [][PassNext]_vars

----------------------------------------------------------------------------
(***************************************************************************)
(* Requests and their responses.                                           *)
(***************************************************************************)
\* the kind of request a response of the given kind answers
RequestKindOf(kind) ==
    CASE kind = "LoadStoredSessionIdsResponseEvent" -> "LoadStoredSessionIdsRequestEvent"
      [] kind = "SaveSessionResponseEvent" -> "SaveSessionRequestEvent"
      [] kind = "LoadSessionResponseEvent" -> "LoadSessionRequestEvent"
      [] kind = "DeleteSessionResponseEvent" -> "DeleteSessionRequestEvent"
      [] kind = "LoadStoredTrackIdsResponseEvent" -> "LoadStoredTrackIdsRequest"
      [] kind = "LoadAllStoredTracksResponseEvent" -> "LoadAllStoredTracksRequestEvent"
      [] kind = "DetectTrackResponseEvent" -> "DetectTrackRequestEvent"

\* how many of the first n events of the bus have the kind, id and address
CountUpTo(n, kind, id, addr) ==
    Cardinality({i \in 1..n : /\ busLog[i].kind = kind
                              /\ busLog[i].id = id
                              /\ busLog[i].addr = addr})

\* the (id, address) pairs of a sequence of events
CorrOf(evs) == [i \in DOMAIN evs |-> <<evs[i].id, evs[i].addr>>]

IsDetectResponse(e) == e.kind = "DetectTrackResponseEvent"

\* the DetectTrackResponses published so far, in order
DetectAnswered == SelectSeq(busLog, IsDetectResponse)

\* C1: every response of the store and of the detector carries the id and the
\* sender address of a request of the paired kind that was published before
\* it, and no more responses carry them than requests did: each response
\* answers a request of its own, none answers nothing.
C1_ResponsesEchoRequests ==
    \A j \in 1..Len(busLog) :
        busLog[j].kind \in ResponseKinds =>
            CountUpTo(j, busLog[j].kind, busLog[j].id, busLog[j].addr)
                <= CountUpTo(j, RequestKindOf(busLog[j].kind), busLog[j].id, busLog[j].addr)

\* the store answered a client's request and the detector answered two
\* requests that carry the same id and address
C1_Witness ==
    /\ \E j \in 1..Len(busLog) :
          /\ busLog[j].kind \in ResponseKinds \ {"DetectTrackResponseEvent",
                                                  "LoadAllStoredTracksResponseEvent"}
          /\ busLog[j].id = 11 /\ busLog[j].addr = 100
    /\ Len(DetectAnswered) = 2
    /\ CorrOf(DetectAnswered) = <<<<10, 22>>, <<10, 22>>>>

\* C8: the requests the detector received are, in the order received, the
\* ones it answered followed by the ones it still holds (each answered once,
\* in order, none dropped); it never answered while the position or the
\* tracks were missing; and none is held once both are there.
C8_PendingAnsweredInOrder ==
    /\ CorrOf(detHist.received) = CorrOf(DetectAnswered) \o CorrOf(detPending)
    /\ ~detHist.early
    /\ (detPosition # <<>> /\ detTracks # <<>>) => detPending = <<>>

\* two different requests were held together while an input was missing and
\* were then answered in the order received
C8_Witness ==
    /\ detHist.held = 2
    /\ detPending = <<>>
    /\ Len(DetectAnswered) = 2
    /\ CorrOf(DetectAnswered) = <<<<11, 100>>, <<10, 22>>>>
    /\ CorrOf(detHist.received) = CorrOf(DetectAnswered)

\* C9 as stated: once the catalog response was handled and a position is
\* known, no request is left unanswered, whether the catalog holds tracks or
\* not.
C9_AnsweredWithEmptyCatalog ==
    (detHist.loaded /\ detPosition # <<>>) => detPending = <<>>

\* C9 as amended: while the detector holds no tracks it publishes no
\* DetectTrackResponse and keeps every pending request, also when the catalog
\* was loaded and is empty.
C9_EmptyCatalogHoldsRequests ==
    [][detTracks' = <<>> =>
          /\ DetectAnswered' = DetectAnswered
          /\ Len(detPending') >= Len(detPending)
          /\ SubSeq(detPending', 1, Len(detPending)) = detPending]_vars

\* the empty catalog was loaded, a position is known, every event was
\* handled, and a request is still pending, unanswered
C9_Witness ==
    /\ detHist.loaded
    /\ detTracks = <<>>
    /\ detPosition # <<>>
    /\ inbox["detector"] = <<>>
    /\ detPending # <<>>
    /\ DetectAnswered = <<>>

\* the tracks of a catalog whose startline is at most 500 m from the position
InRange(tracks, pos) ==
    SelectSeq(tracks, LAMBDA t : CalculateDistanceSq(t.startline, pos) <= 500 * 500)

\* C10: every response of a drain carries the tracks of the detector's
\* catalog within 500 m of its position at that moment, in catalog order; and
\* with a position and a non-empty catalog a request is answered even when no
\* track is in range.
C10_PayloadIsTracksInRange ==
    /\ detHist.last # NoDetect =>
          detHist.last.payloads =
              {InRange(detHist.last.tracks, detHist.last.position[1])}
    /\ (detPosition # <<>> /\ detTracks # <<>>) => detPending = <<>>
    /\ \A i \in 1..Len(DetectAnswered) :
          \E pos \in DetectFixes : DetectAnswered[i].data = InRange(detTracks, pos)

\* a drain 500 m from the first track and 300 m from the second answered with
\* both, in catalog order
C10_Witness ==
    /\ detHist.last.position = <<Pos(0, 500)>>
    /\ detHist.last.payloads = {<<TrackWest, TrackEast>>}
    /\ Len(DetectAnswered) > 0

\* a drain with a non-empty catalog and no track in range answered with the
\* empty list
C10_WitnessNoneInRange ==
    /\ detHist.last.tracks # <<>>
    /\ detHist.last.payloads = {<<>>}
    /\ Len(DetectAnswered) > 0


----------------------------------------------------------------------------
(***************************************************************************)
(* The lap timer and the sessions it leads to.                             *)
(***************************************************************************)
\* the kinds of a sequence of events
KindsOf(evs) == [i \in DOMAIN evs |-> evs[i].kind]

\* the four positions held lie within 25 m of the point, the older two
\* approaching it and the newer two leaving it
CrossedBy(positions, point) ==
    /\ Len(positions) = 4
    /\ \A i \in 1..4 : CalculateDistanceSq(positions[i], point) < 25 * 25
    /\ CalculateDistanceSq(positions[1], point) > CalculateDistanceSq(positions[2], point)
    /\ CalculateDistanceSq(positions[3], point) < CalculateDistanceSq(positions[4], point)
    /\ CalculateDistanceSq(positions[2], point) # CalculateDistanceSq(positions[3], point)

\* the line that ends a lap of the track: its finish line, or its start line
\* when it has none
FinishOf(track) == IF track.finishline = <<>> THEN track.startline ELSE track.finishline[1]

\* the timer's last evaluation began in WaitingForFinish, on a track with a
\* sector, with the finish line crossed by the positions held
FinishCrossed ==
    /\ lapHist.pre = "WaitingForFinish"
    /\ laptimer.track # <<>>
    /\ laptimer.track[1].sectors # <<>>
    /\ CrossedBy(laptimer.last_positions, FinishOf(laptimer.track[1]))

\* C3: an evaluation that finds the finish line crossed in WaitingForFinish,
\* on a track with at least one sector, publishes SectorFinished, LapFinished
\* and LapStarted, these three in this order, and leaves the timer in
\* IteratingTrackPoints at sector 0.
C3_FinishPublishesSectorLapStart ==
    FinishCrossed =>
        /\ lapHist.crossed
        /\ KindsOf(lapHist.out) =
              <<"SectorFinshedEvent", "LapFinishedEvent", "LapStartedEvent">>
        /\ laptimer.state = "IteratingTrackPoints"
        /\ laptimer.sector = 0

\* the finish line of TrackEast, which has two sector markers, was crossed in
\* WaitingForFinish
C3_Witness ==
    /\ FinishCrossed
    /\ laptimer.track = <<TrackEast>>
    /\ Len(lapHist.out) = 3
    /\ lapHist.laps = 1

\* C4 as stated: the time of the last LapFinished equals the sum of the
\* sector times published since the LapStarted before it.
C4_LapTimeIsSumOfSectors ==
    lapHist.lap # <<>> => lapHist.lap[1].time = lapHist.lap[1].sum

\* the sessions the storage holds in session files that parse
PersistedSessions ==
    {FromJson(sessionFiles[id]) : id \in {x \in DOMAIN sessionFiles : sessionFiles[x] # Garbage}}

\* C5: every lap of every session the storage holds has one sector time per
\* sector marker of the session's track and one more.
C5_PersistedLapsHaveAllSectors ==
    \A session \in PersistedSessions :
        \A k \in 1..Len(session.laps) :
            Len(session.laps[k].sectors) = Len(session.track.sectors) + 1

\* a session of two laps was saved, the timer having timed both
C5_Witness ==
    /\ lapHist.laps = 2
    /\ \E session \in PersistedSessions :
          /\ Len(session.laps) = 2
          /\ session.track = TrackWest
          /\ Len(session.laps[2].sectors) = 2

----------------------------------------------------------------------------
\* the lap of what the builder had seen at its last LapFinished
SeenLap == [sectors |-> lapHist.finish[1].seen.sectors,
            log_points |-> lapHist.finish[1].seen.log_points]

\* the builder took a LapFinished while it held a session and an active lap
LapClosed ==
    /\ lapHist.finish # <<>>
    /\ lapHist.finish[1].before.session # <<>>
    /\ lapHist.finish[1].before.active_lap # <<>>

\* C11: when the session builder takes a LapFinished while it holds a
\* session, it publishes exactly one SaveSessionRequest with id 30 and sender
\* address 40 that refers to this session; the active lap, if there is one,
\* holds exactly the sector times and the fixes taken since the last
\* LapStarted, in the order they came, becomes the last lap of the session
\* after the laps that were there, and is cleared
C11_FinishedLapAppendedAndSaved ==
    (lapHist.finish # <<>> /\ lapHist.finish[1].before.session # <<>>) =>
        LET f == lapHist.finish[1]
        IN  /\ f.out = <<Ev("SaveSessionRequestEvent", 30, 40, <<ActiveRef>>)>>
            /\ f.after.active_lap = <<>>
            /\ f.after.session[1].laps =
                   IF f.before.active_lap = <<>> THEN f.before.session[1].laps
                   ELSE Append(f.before.session[1].laps, SeenLap)

\* the second lap of a session is closed, with a sector time and a fix in it
C11_Witness ==
    /\ LapClosed
    /\ Len(lapHist.finish[1].after.session[1].laps) = 2
    /\ lapHist.finish[1].seen.sectors # <<>>
    /\ lapHist.finish[1].seen.log_points # <<>>

----------------------------------------------------------------------------
\* the lap the builder put into the session at its last LapFinished
HandedLap ==
    LET laps == lapHist.finish[1].after.session[1].laps IN laps[Len(laps)]

\* C12 as stated: a lap handed to the storage holds one sector time more
\* than the SectorFinished events the builder took between the lap's
\* LapStarted and its LapFinished
C12_SectorsOnePlusObserved ==
    LapClosed => Len(HandedLap.sectors) = 1 + Len(lapHist.finish[1].seen.sectors)

\* C12 amended: a lap handed to the storage holds as many sector times as
\* the builder took SectorFinished events between the lap's LapStarted and
\* its LapFinished, the one of the last stretch being one of these events
C12_SectorsAreObserved ==
    LapClosed => Len(HandedLap.sectors) = Len(lapHist.finish[1].seen.sectors)

\* a lap is handed over after two SectorFinished events
C12_Witness ==
    /\ LapClosed
    /\ Len(lapHist.finish[1].seen.sectors) = 2
    /\ lapHist.finish[1].out # <<>>

----------------------------------------------------------------------------
\* <id>.session and <id>.info hold the session and its info, flushed
WrittenAndSynced(session, files, infos, uns) ==
    LET id == GetId(session)
    IN  /\ id \in DOMAIN files /\ files[id] = ToJson(session)
        /\ id \in DOMAIN infos /\ infos[id] = SessionInfoOf(session)
        /\ <<"session", id>> \notin uns
        /\ <<"info", id>> \notin uns

IsSaveResponse(e) == e.kind = "SaveSessionResponseEvent"

\* C13: when the storage publishes the SaveSessionResponse to a request and
\* the response carries Ok(id), then id is the lowercased track name with
\* the date and time of the session, and <id>.session and <id>.info hold the
\* serialized session and its info, written and synced, whatever stood
\* there before; so a save that did not write both files answers Err
C13_OkOnlyAfterBothFilesSynced ==
    [][(/\ inbox["storage"] # <<>>
        /\ Head(inbox["storage"]).kind = "SaveSessionRequestEvent"
        /\ Len(busLog') = Len(busLog) + 1
        /\ IsSaveResponse(busLog'[Len(busLog')])
        /\ busLog'[Len(busLog')].data[1].ok)
       => LET session == Deref(Head(inbox["storage"]).data[1])
          IN  /\ busLog'[Len(busLog')].data[1].val =
                     <<ToLowercase(session.track.name), session.stamp>>
              /\ WrittenAndSynced(session, sessionFiles', infoFiles', unsynced')]_vars

\* a save failed, a second save of a session with the same id was answered
\* Ok, and the files hold this session, synced
C13_Witness ==
    LET saved == SelectSeq(busLog, IsSaveResponse)
    IN  /\ Len(saved) = 2
        /\ ~saved[1].data[1].ok
        /\ saved[2].data[1].ok
        /\ saved[2].data[1].val = GetId(StoredSession)
        /\ WrittenAndSynced(WithId(StoredSession, 10), sessionFiles, infoFiles, unsynced)

----------------------------------------------------------------------------
\* C14: a load of an id whose session file holds the serialization of a
\* session s, as a successful save of s leaves it, is answered with a
\* session equal to s in every field, the session id and the part of the
\* sector times below the second included: deserialize(serialize(s)) = s
C14_LoadYieldsSavedSession ==
    [][(/\ inbox["storage"] # <<>>
        /\ Head(inbox["storage"]).kind = "LoadSessionRequestEvent"
        /\ Len(busLog') = Len(busLog) + 1
        /\ busLog'[Len(busLog')].kind = "LoadSessionResponseEvent")
       => LET id == Head(inbox["storage"]).data[1]
              data == busLog'[Len(busLog')].data[1]
          IN  \A s \in StoreSessions :
                 (id \in DOMAIN sessionFiles /\ sessionFiles[id] = ToJson(s))
                    => (data.ok /\ data.val = s)]_vars

----------------------------------------------------------------------------
\* the storage takes a DeleteSessionRequest and publishes its response
DeleteAnswered ==
    /\ inbox["storage"] # <<>>
    /\ Head(inbox["storage"]).kind = "DeleteSessionRequestEvent"
    /\ Len(busLog') = Len(busLog) + 1
    /\ busLog'[Len(busLog')].kind = "DeleteSessionResponseEvent"

\* C15: a DeleteSessionResponse carries Ok only if the handler removed both
\* <id>.info and <id>.session: both were there and neither is afterwards;
\* when the session file could not be removed after the info file was, the
\* response carries the error
C15_OkOnlyIfBothRemoved ==
    [][(DeleteAnswered /\ busLog'[Len(busLog')].data[1].ok)
       => LET id == Head(inbox["storage"]).data[1]
          IN  /\ id \in DOMAIN infoFiles /\ id \notin DOMAIN infoFiles'
              /\ id \in DOMAIN sessionFiles /\ id \notin DOMAIN sessionFiles']_vars

----------------------------------------------------------------------------
\* the ids a list request would be answered with
ListedIds == {LoadSessionInfos[i].id : i \in DOMAIN LoadSessionInfos}

\* the session folder but for the files of id
Others(files, id) == [x \in DOMAIN files \ {id} |-> files[x]]

\* C16: when the delete of a stored session, one with its session file and
\* its info file, is answered Ok, neither file exists any more, a list
\* does not show the id, and the files and the list entries of every other
\* session are what they were
C16_DeleteRemovesStoredSession ==
    [][LET id == Head(inbox["storage"]).data[1]
       IN  (/\ DeleteAnswered
            /\ busLog'[Len(busLog')].data[1].ok
            /\ id \in DOMAIN sessionFiles
            /\ id \in DOMAIN infoFiles)
           => /\ id \notin DOMAIN sessionFiles'
              /\ id \notin DOMAIN infoFiles'
              /\ id \notin ListedIds'
              /\ Others(sessionFiles', id) = Others(sessionFiles, id)
              /\ Others(infoFiles', id) = Others(infoFiles, id)
              /\ ListedIds' \ {id} = ListedIds \ {id}]_vars

\* the frame of C16 alone: a delete, whatever its answer, leaves the files
\* and the list entries of every other session as they were
DeleteLeavesOthers ==
    [][LET id == Head(inbox["storage"]).data[1]
       IN  DeleteAnswered
           => /\ Others(sessionFiles', id) = Others(sessionFiles, id)
              /\ Others(infoFiles', id) = Others(infoFiles, id)
              /\ ListedIds' \ {id} = ListedIds \ {id}]_vars

----------------------------------------------------------------------------
\* the ids whose info file parses
Parseable == {id \in DOMAIN infoFiles : infoFiles[id] # Garbage}

IsListResponse(e) == e.kind = "LoadStoredSessionIdsResponseEvent"

----------------------------------------------------------------------------
\* the lap timer holds a track without sector markers
ZeroSectorTrack == laptimer.track # <<>> /\ laptimer.track[1].sectors = <<>>

\* C18: on a track without sector markers the lap timer, its window of
\* fixes full, keeps running: no evaluation of a fix panics, and the timing
\* events it publishes are LapStarted and LapFinished only
C18_ZeroSectorTrackKeepsRunning ==
    (ZeroSectorTrack /\ Len(laptimer.last_positions) = WindowCapacity) =>
        /\ ~lapHist.panicked
        /\ \A i \in DOMAIN lapHist.out :
              lapHist.out[i].kind \in {"LapStartedEvent", "LapFinishedEvent"}

----------------------------------------------------------------------------
\* the response to the request id was among the first n items sent, those
\* that were taken from the receiver
Arrived(id, n) ==
    \E k \in 1..n : waitLog.delivered[k] = PairResponse(id)

\* C19: with the requests 1 and 2 outstanding on one subscription, in
\* whatever order the responses arrive, a wait returns no response but the
\* one to its own request, and a wait whose response arrived on the
\* subscription and was taken from it returns it: no response is lost
C19_EachWaitObtainsItsResponse ==
    \A k \in DOMAIN waitLog.returned :
        LET w == waitLog.returned[k]
        IN  /\ w.result.kind = "Ok" => w.result.event = PairResponse(w.args.id)
            /\ Arrived(w.args.id, w.taken) => w.result.kind = "Ok"

----------------------------------------------------------------------------
\* the distance of the i-th fix of the window, the newest being the first,
\* to the marker at the origin of the line
CrossDistance(i) ==
    LET x == laptimer.last_positions[i].longitude IN IF x < 0 THEN -x ELSE x

\* the lap timer has evaluated its window of four fixes
CrossTested == lapHist.pre = "WaitingForFirstStart" /\ Len(laptimer.last_positions) = 4

\* C20: the crossing test on a window of four fixes with the distances
\* d[0] (newest) to d[3] (oldest) to the marker finds the marker passed if
\* and only if every d[i] is below 25 m, d[0] > d[1], d[2] < d[3] and
\* d[1] # d[2]; a fix at exactly 25 m makes it false
C20_CrossedIffInRangeAndTurning ==
    CrossTested =>
        (lapHist.crossed <=>
            /\ \A i \in 1..4 : CrossDistance(i) < 25
            /\ CrossDistance(1) > CrossDistance(2)
            /\ CrossDistance(3) < CrossDistance(4)
            /\ CrossDistance(2) # CrossDistance(3))

\* the test was false on a window that approaches and leaves the marker,
\* its oldest fix at exactly 25 m
C20_Witness ==
    /\ CrossTested
    /\ ~lapHist.crossed
    /\ CrossDistance(4) = 25
    /\ CrossDistance(3) = 10
    /\ CrossDistance(2) = 5
    /\ CrossDistance(1) = 10

\* the test was true on a window within 24 m
C20_WitnessCrossed ==
    /\ CrossTested
    /\ lapHist.crossed
    /\ CrossDistance(4) = 24

----------------------------------------------------------------------------
\* a SaveSessionResponse that carries an error was published
SaveFailedBefore ==
    \E j \in DOMAIN busLog : IsSaveResponse(busLog[j]) /\ ~busLog[j].data[1].ok

\* module m takes the event at the head of its inbox
Takes(m) ==
    /\ m \in modules
    /\ inbox[m] # <<>>
    /\ inbox'[m] = Tail(inbox[m])

\* C25: a save that fails ends the run of no module, and after a failed
\* save the storage answers every request it takes with the response of
\* its kind, id and address, and the session builder, on every LapFinished
\* it takes while it holds a session, appends the active lap to the session
\* and publishes a SaveSessionRequest.
C25_FailedSaveStopsNothing ==
    [][/\ (Takes("storage") /\ Len(busLog') = Len(busLog) + 1
           /\ IsSaveResponse(busLog'[Len(busLog')])
           /\ ~busLog'[Len(busLog')].data[1].ok)
          => /\ modules' = modules
             /\ returned' = returned
             /\ activeSession' = activeSession
       /\ (SaveFailedBefore /\ Takes("storage"))
          => LET req == Head(inbox["storage"])
             IN  /\ Len(busLog') = Len(busLog) + 1
                 /\ RequestKindOf(busLog'[Len(busLog')].kind) = req.kind
                 /\ busLog'[Len(busLog')].id = req.id
                 /\ busLog'[Len(busLog')].addr = req.addr
       /\ (SaveFailedBefore /\ Takes("session")
           /\ Head(inbox["session"]).kind = "LapFinishedEvent"
           /\ activeSession.session # <<>>)
          => /\ activeSession'.session[1].laps =
                    IF activeSession.active_lap = <<>>
                    THEN activeSession.session[1].laps
                    ELSE Append(activeSession.session[1].laps,
                                activeSession.active_lap[1])
             /\ busLog' = Append(busLog,
                                 Ev("SaveSessionRequestEvent", 30, 40, <<ActiveRef>>))
             /\ modules' = modules]_vars

\* the save of the first lap failed; the second lap was appended, a save
\* was asked for again and answered Ok, and the session stored has both laps
C25_Witness ==
    LET saved == SelectSeq(busLog, IsSaveResponse)
    IN  /\ Len(saved) = 2
        /\ ~saved[1].data[1].ok
        /\ saved[2].data[1].ok
        /\ activeSession.session # <<>>
        /\ Len(activeSession.session[1].laps) = 2
        /\ \E session \in PersistedSessions : Len(session.laps) = 2

----------------------------------------------------------------------------
(***************************************************************************)
(* Properties of the bus ids (SpecIds).                                    *)
(***************************************************************************)

\* C21: any two buses have different ids, and a bus whose id was taken from
\* the counter later has the larger id, also when the calls of
\* EventBus::new overlap; every context carries the id of its bus.
C21_BusIdsDistinctAndIncreasing ==
    /\ \A i, j \in DOMAIN buses :
          buses[i].ticket < buses[j].ticket => buses[i].id < buses[j].id
    /\ \A i \in DOMAIN buses :
          \A c \in DOMAIN buses[i].ctxs : buses[i].ctxs[c] = buses[i].id

\* the part of C21 on the stability of the ids alone: the id of a bus
\* never changes, nor does the id of a context, and each context carries the
\* id of its bus
BusIdsStable ==
    [][/\ \A i \in DOMAIN buses :
             /\ buses'[i].id = buses[i].id
             /\ SubSeq(buses'[i].ctxs, 1, Len(buses[i].ctxs)) = buses[i].ctxs
       /\ \A i \in DOMAIN buses' :
             \A c \in DOMAIN buses'[i].ctxs : buses'[i].ctxs[c] = buses'[i].id]_vars

----------------------------------------------------------------------------
(***************************************************************************)
(* Properties of the shutdown (SpecQuit).                                  *)
(***************************************************************************)

\* C24: once a Quit event was published, the run() of every module, of the
\* storage, the detector, the lap timer, the session builder and the GNSS
\* adapter, eventually returns Ok, whatever else its receiver holds.
C24_QuitStopsEveryModule ==
    (envLeft.quits = 0) ~> (\A m \in ModuleNames : returned[m] = "Ok")

----------------------------------------------------------------------------
(***************************************************************************)
(* Properties of the lap timer under track responses (SpecTimer).          *)
(***************************************************************************)

\* C26: whenever the lap timer has taken an event and its window holds
\* fewer than four fixes, also when the event is the track response and it
\* arrives before four fixes were received, nothing happens: no event is
\* published, the state of the timer is unchanged and the timer keeps
\* running.
C26_FewerThanFourDoesNothing ==
    [][(Takes("laptimer") /\ Len(laptimer'.last_positions) < WindowCapacity)
          => /\ lapHist'.out = <<>>
             /\ laptimer'.state = laptimer.state
             /\ ~lapHist'.panicked
             /\ "laptimer" \in modules']_vars

\* the part of C26 on the position events alone: a fix that leaves the
\* window with fewer than four fixes publishes nothing, changes no state
\* and ends no module
FewerThanFourFixesDoNothing ==
    [][(Takes("laptimer") /\ Head(inbox["laptimer"]).kind = "GnssPositionEvent"
        /\ Len(laptimer'.last_positions) < WindowCapacity)
          => /\ lapHist'.out = <<>>
             /\ laptimer'.state = laptimer.state
             /\ ~lapHist'.panicked
             /\ "laptimer" \in modules']_vars

\* the part of C26 on a response that arrives while a fix of the window is
\* out of range of the start line
FewerThanFourOutOfRangeDoesNothing ==
    [][(Takes("laptimer") /\ Len(laptimer'.last_positions) < WindowCapacity
        /\ \E i \in DOMAIN laptimer.last_positions :
               CalculateDistanceSq(laptimer.last_positions[i], TrackWest.startline)
                  >= DetectionRange * DetectionRange)
          => /\ lapHist'.out = <<>>
             /\ laptimer'.state = laptimer.state
             /\ ~lapHist'.panicked
             /\ "laptimer" \in modules']_vars

\* the lap timer takes a position event
TakesFix ==
    /\ Takes("laptimer")
    /\ Head(inbox["laptimer"]).kind = "GnssPositionEvent"

\* C27: the lap timer's window holds at most 4 fixes, newest first: a
\* position event puts its fix at the front; when the window is full,
\* exactly the oldest fix, the last of the window, is evicted and the other
\* three keep their order behind the new one; no other step changes the
\* window.
C27_WindowNewestFirstAtMostFour ==
    [][LET old == laptimer.last_positions
           new == laptimer'.last_positions
       IN  /\ Len(new) <= WindowCapacity
           /\ TakesFix =>
                 new = <<Head(inbox["laptimer"]).data[1]>>
                          \o (IF Len(old) = WindowCapacity
                              THEN SubSeq(old, 1, WindowCapacity - 1)
                              ELSE old)
           /\ ~TakesFix => new = old]_vars

\* the fifth fix of the route arrived while the window was full: the first
\* fix of the route is gone and the other four are held, newest first
C27_Witness ==
    /\ gnss.route = <<-20, -10, 5, 15, 60>>
    /\ laptimer.last_positions = <<Pos(0, 60), Pos(0, 15), Pos(0, 5), Pos(0, -10)>>

\* the lap timer takes the response to its request, with a track
TakesMatchingResponse ==
    /\ Takes("laptimer")
    /\ Head(inbox["laptimer"]).kind = "DetectTrackResponseEvent"
    /\ Head(inbox["laptimer"]).id = 10
    /\ Head(inbox["laptimer"]).addr = 22
    /\ Head(inbox["laptimer"]).data # <<>>

\* C28: when the lap timer, waiting for the first start, handles the
\* matching track response while its window holds four fixes that cross the
\* start line of the track, LapStarted is published in the handling of the
\* response itself: no position event is consumed in between, the window
\* is the one held before, the timer iterates the track points and the
\* session builder is sent the event.
C28_StartOnResponse ==
    [][(/\ TakesMatchingResponse
        /\ laptimer.state = "WaitingForFirstStart"
        /\ CrossedBy(laptimer.last_positions,
                     Head(inbox["laptimer"]).data[1].startline))
          => /\ lapHist'.out = <<Plain("LapStartedEvent", <<>>)>>
             /\ laptimer'.state = "IteratingTrackPoints"
             /\ laptimer'.track = <<Head(inbox["laptimer"]).data[1]>>
             /\ laptimer'.last_positions = laptimer.last_positions
             /\ gnss' = gnss
             /\ "session" \in modules =>
                    inbox'["session"] =
                       Append(inbox["session"], Plain("LapStartedEvent", <<>>))
             /\ ~lapHist'.panicked]_vars

\* four fixes crossing the start line were taken before any track was
\* known, the response came and the start was published, the fifth fix of
\* the route not yet sent
C28_Witness ==
    /\ gnss.route = <<-20, -10, 5, 15, 60>>
    /\ gnss.next = 5
    /\ laptimer.last_positions = <<Pos(0, 15), Pos(0, 5), Pos(0, -10), Pos(0, -20)>>
    /\ laptimer.track = <<TrackWest>>
    /\ laptimer.state = "IteratingTrackPoints"
    /\ lapHist.pre = "WaitingForFirstStart"
    /\ lapHist.out = <<Plain("LapStartedEvent", <<>>)>>
    /\ ~lapHist.panicked

\* module m takes a DetectTrackResponse in a turn of its loop (the session
\* builder empties its inbox also when it starts, taking nothing)
TakesResponse(m) ==
    /\ Takes(m)
    /\ m = "session" => activeSession.running
    /\ Head(inbox[m]).kind = "DetectTrackResponseEvent"

\* C30: the track of the lap timer changes only when the timer takes a
\* DetectTrackResponse with id 10 and receiver_addr 22, and a session of
\* the session builder comes to be only when the builder takes one with
\* id 10, receiver_addr 100 and a non-empty payload; a response with
\* another address or another id leaves every field of the module that
\* takes it unchanged, and the matching ones set the first track of the
\* payload.
C30_OnlyMatchingResponsesTakeEffect ==
    [][/\ laptimer'.track # laptimer.track
          => /\ TakesResponse("laptimer")
             /\ Head(inbox["laptimer"]).id = 10
             /\ Head(inbox["laptimer"]).addr = 22
             /\ laptimer'.track = <<Head(inbox["laptimer"]).data[1]>>
       /\ (activeSession.session = <<>> /\ activeSession'.session # <<>>)
          => /\ TakesResponse("session")
             /\ Head(inbox["session"]).id = 10
             /\ Head(inbox["session"]).addr = 100
             /\ Head(inbox["session"]).data # <<>>
             /\ activeSession'.session[1].track = Head(inbox["session"]).data[1]
       /\ (TakesResponse("laptimer")
           /\ (Head(inbox["laptimer"]).id # 10 \/ Head(inbox["laptimer"]).addr # 22))
          => /\ laptimer' = laptimer
             /\ lapHist'.out = <<>>
             /\ modules' = modules
       /\ (TakesResponse("session")
           /\ (Head(inbox["session"]).id # 10 \/ Head(inbox["session"]).addr # 100))
          => /\ activeSession' = activeSession
             /\ busLog' = busLog]_vars

\* a response with another id and the response to the other module were
\* taken by both modules before the matching ones: the timer has its
\* track, the builder its session, and every response sent was taken
C30_Witness ==
    /\ SelectSeq(busLog, LAMBDA e : e.kind = "DetectTrackResponseEvent")
          = <<Ev("DetectTrackResponseEvent", 11, 22, <<TrackWest>>),
              Ev("DetectTrackResponseEvent", 10, 100, <<TrackWest>>),
              Ev("DetectTrackResponseEvent", 10, 22, <<TrackWest>>)>>
    /\ inbox["laptimer"] = <<>>
    /\ inbox["session"] = <<>>
    /\ laptimer.running
    /\ activeSession.running
    /\ laptimer.track = <<TrackWest>>
    /\ activeSession.session # <<>>
    /\ activeSession.session[1].track = TrackWest
    /\ ~lapHist.panicked

\* the timer took the response to the session builder before any response
\* to its own request and has no track
C30_WitnessOtherAddress ==
    /\ SelectSeq(busLog, LAMBDA e : e.kind = "DetectTrackResponseEvent")
          = <<Ev("DetectTrackResponseEvent", 10, 100, <<TrackWest>>)>>
    /\ laptimer.running
    /\ inbox["laptimer"] = <<>>
    /\ laptimer.track = <<>>
    /\ gnss.next = 1


----------------------------------------------------------------------------
(***************************************************************************)
(* The line that ends a lap (SpecLap).                                     *)
(***************************************************************************)

\* C29: an evaluation of the lap timer in WaitingForFinish finds a
\* crossing exactly when the window crosses the start line of the track, if
\* the track has no finish line, and exactly when it crosses the finish
\* line, if the track has one.
C29_FinishIsFinishlineOrStartline ==
    [][(/\ TakesFix \/ TakesMatchingResponse
        /\ laptimer.state = "WaitingForFinish"
        /\ ~lapHist'.panicked)
          => LET track == laptimer'.track[1]
                 window == laptimer'.last_positions
             IN  /\ track.finishline = <<>> =>
                       (lapHist'.crossed <=> CrossedBy(window, track.startline))
                 /\ track.finishline # <<>> =>
                       (lapHist'.crossed <=> CrossedBy(window, track.finishline[1]))]_vars

\* a lap was finished on the start line of a track without a finish line
C29_WitnessAbsent ==
    /\ lapHist.pre = "WaitingForFinish"
    /\ lapHist.crossed
    /\ laptimer.track # <<>>
    /\ laptimer.track[1].finishline = <<>>
    /\ CrossedBy(laptimer.last_positions, laptimer.track[1].startline)

\* a lap was finished on the finish line of a track that has one, away from
\* its start line
C29_WitnessPresent ==
    /\ lapHist.pre = "WaitingForFinish"
    /\ lapHist.crossed
    /\ laptimer.track # <<>>
    /\ laptimer.track[1].finishline # <<>>
    /\ CrossedBy(laptimer.last_positions, laptimer.track[1].finishline[1])
    /\ ~CrossedBy(laptimer.last_positions, laptimer.track[1].startline)

----------------------------------------------------------------------------
(***************************************************************************)
(* The session builder without a session (SpecSession).                    *)
(***************************************************************************)
IsSaveRequest(e) == e.kind = "SaveSessionRequestEvent"

\* C31: while the session builder holds no session, no response (10, 100)
\* with a track taken yet, no SaveSessionRequest has been published,
\* whatever timing and position events the builder took.
C31_NoSessionNoSave ==
    activeSession.session = <<>> => SelectSeq(busLog, IsSaveRequest) = <<>>

\* the builder took the response to its request, with an empty payload, a
\* LapStarted, a fix and a LapFinished: no session, no save asked for
C31_Witness ==
    /\ activeSession.session = <<>>
    /\ activeSession.running
    /\ inbox["session"] = <<>>
    /\ \E i \in DOMAIN busLog :
          busLog[i] = Ev("DetectTrackResponseEvent", 10, 100, <<>>)
    /\ lapHist.finish # <<>>
    /\ lapHist.finish[1].seen.log_points # <<>>
    /\ lapHist.finish[1].before.active_lap # <<>>
    /\ SelectSeq(busLog, IsSaveRequest) = <<>>

----------------------------------------------------------------------------
(***************************************************************************)
(* The order of the file operations of the storage (SpecStore).            *)
(***************************************************************************)

----------------------------------------------------------------------------
(***************************************************************************)
(* Properties of wait_for_event under lag and time (SpecDeadline).         *)
(***************************************************************************)
\* the receive loop takes the item at the head of the receiver
WaitTakes ==
    /\ waitPc = "waiting"
    /\ ctxQueue # <<>>
    /\ ctxQueue' = Tail(ctxQueue)

\* C33: a lag signal taken inside wait_for_event does not end the wait and
\* changes neither its result nor its deadline; an event that matches,
\* taken by the wait, is returned, also after lag signals; and the wait
\* ends with a receive error exactly when it takes the closing of the bus.
C33_LagSkippedClosedEnds ==
    [][/\ (WaitTakes /\ Head(ctxQueue) = LagSignal)
          => /\ waitPc' = "waiting"
             /\ waitResult' = waitResult
             /\ waitArgs' = waitArgs
             /\ waitClock'.deadline = waitClock.deadline
       /\ (WaitTakes /\ WaitMatches(Head(ctxQueue), waitArgs))
          => /\ waitPc' = "done"
             /\ waitResult' = [kind |-> "Ok", event |-> Head(ctxQueue)]
       /\ (WaitTakes /\ Head(ctxQueue) = ClosedSignal)
          => /\ waitPc' = "done"
             /\ waitResult'.kind = "ReceiveError"
       /\ (waitPc = "waiting" /\ waitPc' = "done" /\ waitResult'.kind = "ReceiveError")
          => (WaitTakes /\ Head(ctxQueue) = ClosedSignal)]_vars

\* two lag signals and then the response reached the receiver of a wait,
\* which returned the response
C33_Witness ==
    /\ waitLog.delivered = <<LagSignal, LagSignal, Ev(DeadlineArgs.kind, 1, 7, <<>>)>>
    /\ Len(waitLog.returned) = 1
    /\ waitLog.returned[1].taken = 3
    /\ waitLog.returned[1].result =
          [kind |-> "Ok", event |-> Ev(DeadlineArgs.kind, 1, 7, <<>>)]

\* a lag signal and then the closing reached the receiver of a wait, which
\* returned the receive error
C33_WitnessClosed ==
    /\ waitLog.delivered = <<LagSignal, ClosedSignal>>
    /\ Len(waitLog.returned) = 1
    /\ waitLog.returned[1].taken = 2
    /\ waitLog.returned[1].result.kind = "ReceiveError"

\* C34: a wait that no matching event reaches ends with ReceiveTimeout 20 s
\* after the call, whatever events that do not match and lag signals it
\* took in the meantime: the deadline is that of the call until the wait
\* is done, no wait goes on beyond it, a timeout is returned at the
\* deadline and not before, and a wait never returns an event that does
\* not match.
C34_TimeoutAtDeadlineOfCall ==
    /\ waitPc # "idle" => waitClock.deadline = waitClock.called + WaitSeconds
    /\ waitPc = "waiting" => waitClock.now <= waitClock.called + WaitSeconds
    /\ (waitPc = "done" /\ waitResult.kind = "ReceiveTimeout")
          => waitClock.done = waitClock.called + WaitSeconds
    /\ (waitPc = "done" /\ waitResult.kind = "Ok")
          => WaitMatches(waitResult.event, waitArgs)
    /\ (waitPc = "waiting" /\ ctxQueue = <<>>
        /\ waitClock.now = waitClock.called + WaitSeconds)
          => ENABLED DeadlineTimeout

\* a wait called at 10 s took an event for another module, a lag signal and
\* an event without id, and ended at 30 s with the timeout
C34_Witness ==
    /\ waitPc = "done"
    /\ waitResult.kind = "ReceiveTimeout"
    /\ waitClock.called = 10
    /\ waitClock.done = 30
    /\ waitLog.delivered =
          <<Ev(DeadlineArgs.kind, 1, 8, <<>>), LagSignal, Plain("QuitEvent", <<>>)>>
    /\ ctxQueue = <<>>
    /\ waitLog.returned = <<>>

----------------------------------------------------------------------------
(***************************************************************************)
(* Properties of the time source of the tests (SpecSource).                *)
(***************************************************************************)
\* the last of the durations, zero if there is none
Latest(durations) == IF durations = <<>> THEN 0 ELSE durations[Len(durations)]

\* C35: elapsed_time returns the duration sent last before the call,
\* however many were sent since the call before, or zero if none was sent;
\* start changes nothing of the source.
C35_ElapsedIsLatestInjected ==
    /\ timeLog.read # <<>>
          => timeLog.read[1].value =
                Latest(SubSeq(timeLog.injected, 1, timeLog.read[1].at))
    /\ timeLog.injected = <<>> => timeSource.duration = 0

\* the parts of C35 that hold: with no duration sent the source returns
\* zero; a call that finds at most one duration in the channel returns the
\* one sent last; start leaves the source as it is; and the calls return
\* the durations in the order in which they were sent, one a call
ElapsedIsOldestUnread ==
    [][/\ timeLog'.starts # timeLog.starts => timeSource' = timeSource
       /\ timeLog'.read # timeLog.read
             => /\ timeLog.injected = <<>> => timeLog'.read[1].value = 0
                /\ Len(timeSource.receiver) <= 1
                      => timeLog'.read[1].value = Latest(timeLog.injected)
                /\ timeSource.receiver # <<>>
                      => timeLog'.read[1].value = Head(timeSource.receiver)]_vars

----------------------------------------------------------------------------
(***************************************************************************)
(* Properties of the session folder under crashes (SpecCrash).             *)
(***************************************************************************)

\* C36: in every state reached by saves and deletes of the one storage,
\* the process ending between any two file operations included, every id
\* that has an .info file has a .session file, and so has every id a list
\* request would show.
C36_InfoImpliesSession ==
    /\ DOMAIN infoFiles \subseteq DOMAIN sessionFiles
    /\ ListedIds \subseteq DOMAIN sessionFiles

\* the process ended inside a delete, between the removal of the info file
\* and that of the session file: the session file is an orphan
C36_Witness ==
    /\ modules = {}
    /\ busLog # <<>>
    /\ busLog[Len(busLog)].kind = "DeleteSessionRequestEvent"
    /\ busLog[Len(busLog)].data[1] \in DOMAIN sessionFiles
    /\ busLog[Len(busLog)].data[1] \notin DOMAIN infoFiles
    /\ \E j \in DOMAIN busLog :
          /\ busLog[j].kind = "SaveSessionResponseEvent"
          /\ busLog[j].data[1] = Ok(busLog[Len(busLog)].data[1])

\* the process ended inside a save, after the session file was written and
\* before the info file was created
C36_WitnessSave ==
    /\ modules = {}
    /\ busLog # <<>>
    /\ busLog[Len(busLog)].kind = "SaveSessionRequestEvent"
    /\ GetId(busLog[Len(busLog)].data[1]) \in DOMAIN sessionFiles
    /\ GetId(busLog[Len(busLog)].data[1]) \notin DOMAIN infoFiles
    /\ sessionFiles[GetId(busLog[Len(busLog)].data[1])] = ToJson(busLog[Len(busLog)].data[1])

----------------------------------------------------------------------------
(***************************************************************************)
(* The sector index and the order of the timing events (SpecLap).          *)
(***************************************************************************)

\* C37: whenever the lap timer is in IteratingTrackPoints it has a track
\* and its sector index is smaller than the number of sector markers of
\* that track, so that the lookup of the marker is within bounds.
C37_SectorIndexInBounds ==
    laptimer.state = "IteratingTrackPoints"
       => /\ laptimer.track # <<>>
          /\ laptimer.sector < Len(laptimer.track[1].sectors)

\* the part of C37 that holds: on a track with at least one sector marker
\* the index is within bounds whenever the timer iterates the track points
SectorIndexInBoundsWithSectors ==
    (laptimer.state = "IteratingTrackPoints" /\ laptimer.track # <<>>
     /\ laptimer.track[1].sectors # <<>>)
        => laptimer.sector < Len(laptimer.track[1].sectors)

\* the timer iterates the second of two sectors
SectorIndexWitness ==
    /\ laptimer.state = "IteratingTrackPoints"
    /\ laptimer.sector = 1
    /\ Len(laptimer.track[1].sectors) = 2

\* C38: the LapStarted and LapFinished events the lap timer publishes
\* alternate, the first of them a LapStarted, and every SectorFinished
\* comes after a LapStarted and before the LapFinished that follows it:
\* nothing is published out of this order, and before the first LapStarted
\* no lap was finished.
C38_StartedAndFinishedAlternate ==
    /\ lapHist.phase # "broken"
    /\ lapHist.phase = "before" => (lapHist.laps = 0 /\ lapHist.sum = 0)

\* on a track with sectors two laps were finished, each after its sectors,
\* and the third lap is under way
C38_Witness ==
    /\ lapHist.phase = "lap"
    /\ lapHist.laps = 2
    /\ laptimer.track # <<>>
    /\ laptimer.track[1].sectors # <<>>
    /\ lapHist.out = <<Plain("SectorFinshedEvent", <<lapHist.out[1].data[1]>>),
                       Plain("LapFinishedEvent", <<lapHist.lap[1].time>>),
                       Plain("LapStartedEvent", <<>>)>>

----------------------------------------------------------------------------
(***************************************************************************)
(* One pass of a marker (SpecPass).                                        *)
(***************************************************************************)
\* the number of windows on which the timer found the point of PassTrack
\* passed: the first gives LapStarted, the second SectorFinished, the third
\* LapFinished
PassHits ==
    IF laptimer.state = "WaitingForFirstStart" THEN 0
    ELSE IF laptimer.state = "IteratingTrackPoints" /\ lapHist.laps = 0 THEN 1
    ELSE IF lapHist.laps = 0 THEN 2
    ELSE 3

\* C39: over the fixes of one pass of a marker, their distances falling to
\* one minimum and rising again, all below 25 m, the crossing test is true
\* on at most one of the windows of four fixes.
C39_OnePassOneCrossing ==
    PassHits <= 1

\* the test is true on at most two windows of one pass, the two that hold
\* the fix next to the marker as their second and as their third
OnePassAtMostTwoCrossings ==
    /\ PassHits <= 2
    /\ [][(PassHits = 1 /\ PassHits' = 2)
            => /\ lapHist.crossed
               /\ Head(inbox["laptimer"]).kind = "GnssPositionEvent"]_vars

\* one pass over five fixes was found passed on two windows
TwoCrossingsWitness ==
    /\ PassHits = 2
    /\ gnss.route = <<60, -20, -10, -3, 5, 15>>

----------------------------------------------------------------------------
(***************************************************************************)
(* A save and the session builder (SpecSave).                              *)
(***************************************************************************)
\* the files of the save under way are written, both without failure
SaveWritesBoth ==
    /\ saving # <<>>
    /\ saving' = <<>>
    /\ busLog' # busLog
    /\ busLog'[Len(busLog')].data[1].ok

\* C40: the lap count a save writes to <id>.info is the number of laps of
\* the session the same save writes to <id>.session, also when the session
\* builder has put a lap into the session after the save took its request.
C40_InfoCountsLapsOfSavedSession ==
    [][SaveWritesBoth
        => LET id == saving[1].id
           IN  /\ id \in DOMAIN sessionFiles' /\ id \in DOMAIN infoFiles'
               /\ infoFiles'[id].laps = Len(FromJson(sessionFiles'[id]).laps)
               /\ sessionFiles'[id] = saving[1].json_session]_vars

\* a save holds a session of one lap serialized while the session has two
C40_Witness ==
    /\ saving # <<>>
    /\ Len(saving[1].json_session.laps) = 1
    /\ Len(activeSession.session[1].laps) = 2

\* the files of that save were written, one lap in both, after the builder
\* had put the second lap into the session and asked for the next save
C40_WitnessWritten ==
    /\ saving = <<>>
    /\ Len(busLog) >= 2
    /\ busLog[Len(busLog)].kind = "SaveSessionResponseEvent"
    /\ busLog[Len(busLog)].data[1].ok
    /\ busLog[Len(busLog) - 1].kind = "SaveSessionRequestEvent"
    /\ Cardinality({k \in DOMAIN busLog :
                       busLog[k].kind = "SaveSessionResponseEvent"}) = 1
    /\ Len(activeSession.session[1].laps) = 2
    /\ \E id \in DOMAIN infoFiles \cap DOMAIN sessionFiles :
          /\ infoFiles[id].laps = 1
          /\ Len(sessionFiles[id].laps) = 1
============================================================================
